---- MODULE Spec2Model ----
(***************************************************************************)
(* Model of the VWAP deviation trading pipeline:                           *)
(*   RollingVWAP   (rolling-vwap.js)   windowed VWAP / deviation history   *)
(*   Strategy      (strategy.js)       entry / exit rules, reentry lock    *)
(*   PaperTrading  (paper-trading.js)  simulated position ledger           *)
(*   server.js                         update event and HTTP handlers      *)
(*                                                                         *)
(* Numbers.  JavaScript doubles are modelled by exact arithmetic:          *)
(*  - the aggregator works on rationals [n, d] (d > 0, lowest terms);      *)
(*    the JavaScript value null is the record NullNum (d = 0);             *)
(*  - the strategy's deviation percentages are integers in hundredths of   *)
(*    a percentage point (0.6% is 60, -2.4% is -240); an optional value    *)
(*    is a sequence of length 0 (null) or 1;                               *)
(*  - time is counted in candle intervals (candleIntervalSeconds = 1       *)
(*    unit), so that maxCandles is the window length in units.             *)
(***************************************************************************)
EXTENDS Integers, Sequences, FiniteSets, TLC

VARIABLES
  now,            \* the wall clock, Math.floor(Date.now() / 1000), in intervals
  rollingVWAP,    \* the RollingVWAP object's fields
  strategy,       \* the Strategy object's fields
  paperTrading,   \* the PaperTrading object's fields
  algorithmRunning, \* server.js: let algorithmRunning
  ws,             \* the CoinbaseWebSocket object's fields, its sockets and timers
  tracker,        \* the VWAPTracker: how far start() is, and its cleanup interval
  lastCall,       \* history variable: the last operation, its inputs and results
  stopLossPending \* history variable: a stop-loss has fired and no evaluateEntry
                  \* call since has been given a number inside the neutral band

vars == <<now, rollingVWAP, strategy, paperTrading, algorithmRunning,
          ws, tracker, lastCall, stopLossPending>>

----------------------------------------------------------------------------
(* Bounds of the model                                                     *)

\* the clock ranges over 1..MaxTime
MaxTime == 3
\* windowHours * 60 * 60 in candle intervals (= maxCandles)
WindowIntervals == 1
\* the server's events stop once the trade history holds this many records
MaxTradeRecords == 3
\* the client opens no more WebSocket objects than this
MaxSockets == 3

----------------------------------------------------------------------------
(* Exact rational arithmetic standing in for JavaScript numbers            *)

Abs(x) == IF x < 0 THEN -x ELSE x

RECURSIVE GCD(_, _)
GCD(a, b) == IF b = 0 THEN a ELSE GCD(b, a % b)

\* null
NullNum == [n |-> 0, d |-> 0]

IsNull(r) == r.d = 0

\* the rational n/d in lowest terms with a positive denominator (d # 0)
Rat(n, d) ==
  LET g == GCD(Abs(n), Abs(d))
      s == IF d < 0 THEN -1 ELSE 1
  IN [n |-> (s * n) \div g, d |-> (s * d) \div g]

Num(i) == [n |-> i, d |-> 1]

RatAdd(a, b) == Rat(a.n * b.d + b.n * a.d, a.d * b.d)
RatSub(a, b) == Rat(a.n * b.d - b.n * a.d, a.d * b.d)
RatMul(a, b) == Rat(a.n * b.n, a.d * b.d)
RatDiv(a, b) == Rat(a.n * b.d, a.d * b.n)
RatLess(a, b) == a.n * b.d < b.n * a.d
RatPositive(a) == a.n > 0

\* JavaScript truthiness of a number-or-null: null and 0 are falsy
Truthy(r) == ~IsNull(r) /\ r.n # 0

RECURSIVE SumOver(_, _)
\* the sum over the finite set S of the rationals f[x]
SumOver(S, f) ==
  IF S = {} THEN Num(0)
  ELSE LET x == CHOOSE y \in S : TRUE
       IN RatAdd(f[x], SumOver(S \ {x}, f))

SetMin(S) == CHOOSE x \in S : \A y \in S : x <= y

----------------------------------------------------------------------------
(* RollingVWAP                                                             *)

\* this.maxCandles = (windowHours * 60 * 60) / this.candleIntervalSeconds
maxCandles == WindowIntervals

\* this.deviationHistoryWindowHours * 60 * 60: longer than the VWAP window
DeviationIntervals == WindowIntervals + 1

\* the constructor's field values
NewRollingVWAP ==
  [ candles            |-> << >>,      \* Map: start -> candle
    totalPriceVolume   |-> Num(0),
    totalVolume        |-> Num(0),
    currentVWAP        |-> NullNum,
    currentPrice       |-> NullNum,
    lastUpdate         |-> << >>,
    currentCandleStart |-> << >>,
    deviationHistory   |-> << >> ]

\* the entry stored by this.candles.set(start, {...})
CandleEntry(c) ==
  LET typicalPrice == Rat(c.high + c.low + c.close, 3)
  IN [ start        |-> c.start,
       high         |-> c.high,
       low          |-> c.low,
       close        |-> c.close,
       volume       |-> c.volume,
       typicalPrice |-> typicalPrice,
       priceVolume  |-> RatMul(typicalPrice, Num(c.volume)) ]

updateStats(a) ==
  [a EXCEPT !.currentVWAP =
     IF RatPositive(a.totalVolume)
     THEN RatDiv(a.totalPriceVolume, a.totalVolume)
     ELSE NullNum]

\* entry => entry.timestamp >= cutoffTime, applied to the history array
PruneDeviations(h, cutoffTime) ==
  SelectSeq(h, LAMBDA e : e.timestamp >= cutoffTime)

\* RemoveByAge leaving the deleted candles' contributions in the totals
RemoveByAgeKeepingTotals(a, cutoffTime) ==
  [a EXCEPT !.candles = [s \in {x \in DOMAIN a.candles : x >= cutoffTime} |-> a.candles[s]]]

\* the for-loop of removeOldCandles: delete every candle with start < cutoffTime
RemoveByAge(a, cutoffTime) ==
  LET old  == {s \in DOMAIN a.candles : s < cutoffTime}
      keep == DOMAIN a.candles \ old
  IN [a EXCEPT
        !.candles = [s \in keep |-> a.candles[s]],
        !.totalPriceVolume =
           RatSub(@, SumOver(old, [s \in old |-> a.candles[s].priceVolume])),
        !.totalVolume =
           RatSub(@, SumOver(old, [s \in old |-> Num(a.candles[s].volume)]))]

RECURSIVE RemoveOverBudget(_)
\* the while-loop of removeOldCandles: drop the oldest while size > maxCandles
RemoveOverBudget(a) ==
  IF Cardinality(DOMAIN a.candles) > maxCandles
  THEN LET oldestStart == SetMin(DOMAIN a.candles)
           oldCandle   == a.candles[oldestStart]
       IN RemoveOverBudget(
            [a EXCEPT
               !.candles = [s \in DOMAIN a.candles \ {oldestStart} |-> a.candles[s]],
               !.totalPriceVolume = RatSub(@, oldCandle.priceVolume),
               !.totalVolume = RatSub(@, Num(oldCandle.volume))])
  ELSE a

removeOldCandles(a, t) ==
  LET b == RemoveOverBudget(RemoveByAge(a, t - WindowIntervals))
  IN [b EXCEPT !.deviationHistory = PruneDeviations(@, t - DeviationIntervals)]

getDeviation(a) ==
  IF ~Truthy(a.currentVWAP) \/ ~Truthy(a.currentPrice) THEN NullNum
  ELSE RatSub(a.currentPrice, a.currentVWAP)

getDeviationPercent(a) ==
  IF ~Truthy(a.currentVWAP) \/ ~Truthy(a.currentPrice) THEN NullNum
  ELSE RatMul(RatDiv(RatSub(a.currentPrice, a.currentVWAP), a.currentVWAP), Num(100))

RECURSIVE SortByTimestamp(_)
\* Array.prototype.sort((a, b) => a.timestamp - b.timestamp): a stable sort
SortByTimestamp(h) ==
  IF Len(h) <= 1 THEN h
  ELSE LET front == SortByTimestamp(SubSeq(h, 1, Len(h) - 1))
           x     == h[Len(h)]
           le    == SelectSeq(front, LAMBDA e : e.timestamp <= x.timestamp)
           gt    == SelectSeq(front, LAMBDA e : e.timestamp > x.timestamp)
       IN le \o <<x>> \o gt

\* the index found by findIndex(d => d.timestamp === ts), 0 when there is none
FindIndex(h, ts) ==
  IF \E i \in 1..Len(h) : h[i].timestamp = ts
  THEN CHOOSE i \in 1..Len(h) :
         h[i].timestamp = ts /\ \A j \in 1..(i - 1) : h[j].timestamp # ts
  ELSE 0

recordDeviation(a, t) ==
  IF ~Truthy(a.currentVWAP) \/ ~Truthy(a.currentPrice)
       \/ a.currentCandleStart = << >> \/ a.currentCandleStart = <<0>>
  THEN a
  ELSE
    LET candleTimestamp == a.currentCandleStart[1]
        existingIndex   == FindIndex(a.deviationHistory, candleTimestamp)
        snapshot == [ timestamp        |-> candleTimestamp,
                      price            |-> a.currentPrice,
                      vwap             |-> a.currentVWAP,
                      deviation        |-> RatSub(a.currentPrice, a.currentVWAP),
                      deviationPercent |-> getDeviationPercent(a) ]
        stored == IF existingIndex > 0
                  THEN [a.deviationHistory EXCEPT ![existingIndex] = snapshot]
                  ELSE SortByTimestamp(Append(a.deviationHistory, snapshot))
    IN [a EXCEPT !.deviationHistory = PruneDeviations(stored, t - DeviationIntervals)]

\* MakeRoom with the replaced candle's contribution left in the totals
MakeRoomKeepingOld(a, start, t) ==
  IF start \in DOMAIN a.candles THEN a ELSE removeOldCandles(a, t)

\* updateCandle up to the point where the candle is stored: the running
\* totals lose the replaced candle, or the window is pruned for a new one
MakeRoom(a, start, t) ==
  IF start \in DOMAIN a.candles
  THEN [a EXCEPT
          !.totalPriceVolume = RatSub(@, a.candles[start].priceVolume),
          !.totalVolume = RatSub(@, Num(a.candles[start].volume))]
  ELSE removeOldCandles(a, t)

updateCandle(a, c, t) ==
  LET e == CandleEntry(c)
      b == MakeRoom(a, c.start, t)
      stored ==
        [b EXCEPT
           !.candles = [s \in DOMAIN b.candles \cup {c.start} |->
                          IF s = c.start THEN e ELSE b.candles[s]],
           !.totalPriceVolume = RatAdd(@, e.priceVolume),
           !.totalVolume = RatAdd(@, Num(e.volume)),
           !.currentPrice = Num(c.close),
           !.currentCandleStart = <<c.start>>,
           !.lastUpdate = <<t>>]
  IN recordDeviation(updateStats(stored), t)

\* updatePrice recording a deviation snapshot for the new price
updatePriceRecording(a, price, t) ==
  recordDeviation([a EXCEPT !.currentPrice = Num(price), !.lastUpdate = <<t>>], t)

updatePrice(a, price, t) ==
  [a EXCEPT !.currentPrice = Num(price), !.lastUpdate = <<t>>]

\* percentile taking the nearest rank, ceil(p/100 * n), as a 1-based position
percentileNearestRank(arr, p) ==
  IF Len(arr) = 0 THEN << >>
  ELSE <<arr[IF (p * Len(arr)) % 100 = 0 /\ p * Len(arr) >= 100
             THEN (p * Len(arr)) \div 100
             ELSE (p * Len(arr)) \div 100 + 1]>>

\* the percentile closure of getDeviationStats: null (<< >>) for an empty
\* array, else arr[Math.min(Math.floor((p / 100) * arr.length), arr.length - 1)]
percentile(arr, p) ==
  IF Len(arr) = 0 THEN << >>
  ELSE LET index == (p * Len(arr)) \div 100
       IN <<arr[(IF index < Len(arr) - 1 THEN index ELSE Len(arr) - 1) + 1]>>

\* the percentiles getDeviationStats reports
PercentileRanks == {1, 5, 10, 90, 95, 99}

\* SortByStart leaving the candles in the order they came
KeepOrder(cs) == cs

RECURSIVE SortByStart(_)
\* Array.prototype.sort((a, b) => startA - startB): a stable sort
SortByStart(cs) ==
  IF Len(cs) <= 1 THEN cs
  ELSE LET front == SortByStart(SubSeq(cs, 1, Len(cs) - 1))
           x     == cs[Len(cs)]
           le    == SelectSeq(front, LAMBDA e : e.start <= x.start)
           gt    == SelectSeq(front, LAMBDA e : e.start > x.start)
       IN le \o <<x>> \o gt

\* the inner loop of initializeDeviationHistory: the VWAP of the candles
\* sorted[1..i] whose start lies in the VWAP window ending at sorted[i]
VwapAtMoment(sorted, i) ==
  LET windowStart == sorted[i].start - WindowIntervals
      inWindow == {j \in 1..i : /\ sorted[j].start >= windowStart
                                /\ sorted[j].start <= sorted[i].start}
      windowPriceVolume ==
        SumOver(inWindow, [j \in inWindow |-> CandleEntry(sorted[j]).priceVolume])
      windowVolume ==
        SumOver(inWindow, [j \in inWindow |-> Num(sorted[j].volume)])
  IN IF RatPositive(windowVolume) THEN RatDiv(windowPriceVolume, windowVolume)
     ELSE NullNum

RECURSIVE HistoryOf(_, _, _)
\* the outer loop of initializeDeviationHistory over sorted[1..i]: a snapshot
\* is pushed for each candle inside the history window that has a VWAP
HistoryOf(sorted, i, historyStartTime) ==
  IF i = 0 THEN << >>
  ELSE LET before == HistoryOf(sorted, i - 1, historyStartTime)
           vwapAtMoment == VwapAtMoment(sorted, i)
           candleClose  == Num(sorted[i].close)
       IN IF sorted[i].start < historyStartTime \/ IsNull(vwapAtMoment)
          THEN before
          ELSE Append(before,
                 [ timestamp        |-> sorted[i].start,
                   price            |-> candleClose,
                   vwap             |-> vwapAtMoment,
                   deviation        |-> RatSub(candleClose, vwapAtMoment),
                   deviationPercent |->
                     RatMul(RatDiv(RatSub(candleClose, vwapAtMoment), vwapAtMoment),
                            Num(100)) ])

initializeDeviationHistory(a, allCandles, t) ==
  LET sortedCandles == SortByStart(allCandles)
  IN [a EXCEPT !.deviationHistory =
        SortByTimestamp(HistoryOf(sortedCandles, Len(sortedCandles),
                                  t - DeviationIntervals))]

\* the running totals after the forEach of initialize: every candle of the
\* batch is added, whether or not its start is already in the map
InitializeTotals(sortedCandles) ==
  LET all == 1..Len(sortedCandles)
  IN [ totalPriceVolume |->
         SumOver(all, [i \in all |-> CandleEntry(sortedCandles[i]).priceVolume]),
       totalVolume |->
         SumOver(all, [i \in all |-> Num(sortedCandles[i].volume)]) ]

initialize(a, candles, t) ==
  LET sortedCandles == SortByStart(candles)
      starts == {sortedCandles[i].start : i \in 1..Len(sortedCandles)}
      \* this.candles.set(start, ...): the last candle of a start stays
      last(st) == CHOOSE i \in 1..Len(sortedCandles) :
                    /\ sortedCandles[i].start = st
                    /\ \A j \in (i + 1)..Len(sortedCandles) : sortedCandles[j].start # st
      totals == InitializeTotals(sortedCandles)
      filled ==
        [a EXCEPT
           !.candles = [st \in starts |-> CandleEntry(sortedCandles[last(st)])],
           !.totalPriceVolume = totals.totalPriceVolume,
           !.totalVolume = totals.totalVolume]
      latest ==
        IF Len(sortedCandles) > 0
        THEN [filled EXCEPT
                !.currentPrice = Num(sortedCandles[Len(sortedCandles)].close),
                !.currentCandleStart = <<sortedCandles[Len(sortedCandles)].start>>,
                !.lastUpdate = <<t>>]
        ELSE filled
  IN updateStats(latest)

\* VWAPTracker.start up to the connect: the deviation history from the whole
\* backfill, the window from its candles inside the VWAP window
startTracker(a, allHistoricalCandles, t) ==
  IF Len(allHistoricalCandles) > 0
  THEN LET withHistory   == initializeDeviationHistory(a, allHistoricalCandles, t)
           recentCandles == SelectSeq(SortByStart(allHistoricalCandles),
                                      LAMBDA c : c.start >= t - WindowIntervals)
       IN IF Len(recentCandles) > 0
          THEN initialize(withHistory, recentCandles, t)
          ELSE withHistory
  ELSE a

----------------------------------------------------------------------------
(* Strategy: thresholds in hundredths of a percentage point                *)

SHORT1_THRESHOLD_PERCENT == 60
SHORT2_THRESHOLD_PERCENT == 75
LONG1_THRESHOLD_PERCENT == -75
LONG2_THRESHOLD_PERCENT == -90
TAKE_PROFIT_THRESHOLD == 10
SHORT_STOP_LOSS_ABSOLUTE == 225
LONG_STOP_LOSS_ABSOLUTE == -240
NEUTRAL_MIN == -75
NEUTRAL_MAX == 60

Max(a, b) == IF a >= b THEN a ELSE b
Min(a, b) == IF a <= b THEN a ELSE b

\* an optional value is << >> (null) or <<v>>
Null == << >>
Some(v) == <<v>>

\* the number JavaScript's relational operators and Math.abs make of a
\* number-or-null operand: null converts to 0
ToNumber(x) == IF x = Null THEN 0 ELSE x[1]

NewStrategy == [waitingForNeutralReentry |-> "null"]

\* the object a call returns; "-" stands for an absent property
Signal(action, type, level, exitType, reason) ==
  [action |-> action, type |-> type, level |-> level,
   exitType |-> exitType, reason |-> reason]

\* evaluateEntry or evaluateExit was not called
NotCalled == Signal("not_called", "-", "-", "-", "-")

\* deviation.toFixed(2) on a null deviation: the call ends in a TypeError
TypeError == Signal("TypeError", "-", "-", "-", "deviation.toFixed")

\* short1Threshold with the absolute floor left out
short1ThresholdPercentileOnly(percentiles) == percentiles.percentile90Percent

\* Math.max(p90, this.SHORT1_THRESHOLD_PERCENT)
short1Threshold(percentiles) ==
  Max(percentiles.percentile90Percent, SHORT1_THRESHOLD_PERCENT)

\* Math.min(p10, this.LONG1_THRESHOLD_PERCENT)
long1Threshold(percentiles) ==
  Min(percentiles.percentile10Percent, LONG1_THRESHOLD_PERCENT)

\* short2Threshold with the percentile left out
short2ThresholdAbsoluteOnly(percentiles) == SHORT2_THRESHOLD_PERCENT

\* Math.max(p95, this.SHORT2_THRESHOLD_PERCENT)
short2Threshold(percentiles) ==
  Max(percentiles.percentile95Percent, SHORT2_THRESHOLD_PERCENT)

\* Math.min(p5, this.LONG2_THRESHOLD_PERCENT)
long2Threshold(percentiles) ==
  Min(percentiles.percentile5Percent, LONG2_THRESHOLD_PERCENT)

\* HoldsOnly without the contract count
HoldsLevel(pos, level) ==
  \E i \in 1..Len(pos.entryLevels) : pos.entryLevels[i] = level

\* currentPosition.totalContractCount === 1 && currentPosition.entryLevels.includes(level)
HoldsOnly(pos, level) ==
  /\ pos.totalContractCount = 1
  /\ \E i \in 1..Len(pos.entryLevels) : pos.entryLevels[i] = level

\* the entry rules below the reentry check (lines 66-136)
EntryRules(stats, currentPosition) ==
  LET deviation == ToNumber(stats.deviationPercent) IN
  IF stats.percentiles = Null
  THEN Signal("null", "-", "-", "-", "Insufficient deviation history")
  ELSE
    LET percentiles == stats.percentiles[1] IN
    IF currentPosition = Null
    THEN IF deviation >= short1Threshold(percentiles)
         THEN Signal("enter", "short", "Short1", "-", "Deviation >= max(p90, SHORT1)")
         ELSE IF deviation <= long1Threshold(percentiles)
         THEN Signal("enter", "long", "Long1", "-", "Deviation <= min(p10, LONG1)")
         ELSE Signal("null", "-", "-", "-", "No entry conditions met")
    ELSE
      LET pos == currentPosition[1] IN
      IF /\ pos.type = "short"
         /\ HoldsOnly(pos, "Short1")
         /\ deviation >= short2Threshold(percentiles)
      THEN Signal("add", "short", "Short2", "-", "Deviation >= max(p95, SHORT2)")
      ELSE IF /\ pos.type = "long"
              /\ HoldsOnly(pos, "Long1")
              /\ deviation <= long2Threshold(percentiles)
      THEN Signal("add", "long", "Long2", "-", "Deviation <= min(p5, LONG2)")
      ELSE Signal("null", "-", "-", "-", "No add conditions met")

\* InNeutralRange with the upper end of the band left out
InNeutralRangeBelowMax(deviationPercent) ==
  /\ ToNumber(deviationPercent) >= NEUTRAL_MIN
  /\ ToNumber(deviationPercent) < NEUTRAL_MAX

\* deviation >= this.NEUTRAL_MIN && deviation <= this.NEUTRAL_MAX
InNeutralRange(deviationPercent) ==
  /\ ToNumber(deviationPercent) >= NEUTRAL_MIN
  /\ ToNumber(deviationPercent) <= NEUTRAL_MAX

\* evaluateEntry without the reentry lock: the entry rules on every call
evaluateEntryUnlocked(s, stats, currentPosition) ==
  [strategy |-> s, result |-> EntryRules(stats, currentPosition)]

\* evaluateEntry: the strategy object after the call and the call's result
evaluateEntry(s, stats, currentPosition) ==
  IF s.waitingForNeutralReentry # "null"
  THEN IF InNeutralRange(stats.deviationPercent)
       THEN \* the flag is cleared, then the log line formats the deviation
            IF stats.deviationPercent = Null
            THEN [strategy |-> [s EXCEPT !.waitingForNeutralReentry = "null"],
                  result   |-> TypeError]
            ELSE [strategy |-> [s EXCEPT !.waitingForNeutralReentry = "null"],
                  result   |-> EntryRules(stats, currentPosition)]
       ELSE [strategy |-> s,
             result   |-> Signal("none", "-", "-", "-", "Waiting for neutral reentry zone")]
  ELSE [strategy |-> s, result |-> EntryRules(stats, currentPosition)]

\* TakeProfitHit without Math.abs, for deviations above the VWAP only
TakeProfitHitAbove(deviationPercent) ==
  /\ ToNumber(deviationPercent) >= 0
  /\ ToNumber(deviationPercent) < TAKE_PROFIT_THRESHOLD

\* Math.abs(deviation) < this.TAKE_PROFIT_THRESHOLD
TakeProfitHit(deviationPercent) ==
  Abs(ToNumber(deviationPercent)) < TAKE_PROFIT_THRESHOLD

\* ShortStopHit with the boundary left out
ShortStopHitAbove(deviationPercent) ==
  ToNumber(deviationPercent) > SHORT_STOP_LOSS_ABSOLUTE

\* const absoluteStop = deviation >= this.SHORT_STOP_LOSS_ABSOLUTE
ShortStopHit(deviationPercent) ==
  ToNumber(deviationPercent) >= SHORT_STOP_LOSS_ABSOLUTE

\* const absoluteStop = deviation <= this.LONG_STOP_LOSS_ABSOLUTE
LongStopHit(deviationPercent) ==
  ToNumber(deviationPercent) <= LONG_STOP_LOSS_ABSOLUTE


\* TakeProfitExit setting the reentry lock as a stop-loss does
TakeProfitExitLocking(s, currentPosition) ==
  [strategy |-> [s EXCEPT !.waitingForNeutralReentry = currentPosition[1].type],
   result   |-> Signal("close", "-", "-", "take_profit", "Take profit")]

\* the take-profit branch of evaluateExit: the object returned, the strategy untouched
TakeProfitExit(s, currentPosition) ==
  [strategy |-> s,
   result   |-> Signal("close", "-", "-", "take_profit", "Take profit")]

\* evaluateExit whose stop-loss branches leave the reentry lock alone
evaluateExitNotLocking(s, stats, currentPosition) ==
  IF currentPosition = Null
  THEN [strategy |-> s,
        result   |-> Signal("null", "-", "-", "-", "No position to exit")]
  ELSE IF stats.percentiles = Null
  THEN [strategy |-> s,
        result   |-> Signal("null", "-", "-", "-", "Insufficient deviation history")]
  ELSE IF TakeProfitHit(stats.deviationPercent)
  THEN TakeProfitExit(s, currentPosition)
  ELSE IF currentPosition[1].type = "short" /\ ShortStopHit(stats.deviationPercent)
  THEN [strategy |-> s,
        result   |-> Signal("close", "-", "-", "stop_loss", "Stop loss (absolute)")]
  ELSE IF currentPosition[1].type = "long" /\ LongStopHit(stats.deviationPercent)
  THEN [strategy |-> s,
        result   |-> Signal("close", "-", "-", "stop_loss", "Stop loss (absolute)")]
  ELSE [strategy |-> s,
        result   |-> Signal("null", "-", "-", "-", "No exit conditions met")]

\* evaluateExit: the strategy object after the call and the call's result
evaluateExit(s, stats, currentPosition) ==
  IF currentPosition = Null
  THEN [strategy |-> s,
        result   |-> Signal("null", "-", "-", "-", "No position to exit")]
  ELSE IF stats.percentiles = Null
  THEN [strategy |-> s,
        result   |-> Signal("null", "-", "-", "-", "Insufficient deviation history")]
  ELSE IF TakeProfitHit(stats.deviationPercent)
  THEN TakeProfitExit(s, currentPosition)
  ELSE IF currentPosition[1].type = "short" /\ ShortStopHit(stats.deviationPercent)
  THEN [strategy |-> [s EXCEPT !.waitingForNeutralReentry = "short"],
        result   |-> Signal("close", "-", "-", "stop_loss", "Stop loss (absolute)")]
  ELSE IF currentPosition[1].type = "long" /\ LongStopHit(stats.deviationPercent)
  THEN [strategy |-> [s EXCEPT !.waitingForNeutralReentry = "long"],
        result   |-> Signal("close", "-", "-", "stop_loss", "Stop loss (absolute)")]
  ELSE [strategy |-> s,
        result   |-> Signal("null", "-", "-", "-", "No exit conditions met")]

----------------------------------------------------------------------------
(* PaperTrading                                                            *)
(*                                                                         *)
(* Fixed point: a price is an integer number of price units (25 USD), a    *)
(* size an integer number of hundredths of a BTC, an amount of money an    *)
(* integer number of amount units (10^-6 price unit x BTC, 25e-6 USD).     *)
(* Market prices are multiples of 4000 price units, which keeps every      *)
(* product and quotient below exact.                                       *)

\* 1 contract = 0.01 BTC, in hundredths of a BTC
CONTRACT_SIZE == 1
\* 0.00065
TRADING_FEE == Rat(65, 100000)
\* 0.0005
SLIPPAGE == Rat(5, 10000)
\* new PaperTrading(10000): 10000 USD in amount units
initialBalance == 400000000

\* x * r for an integer x and a rate r whose denominator divides x
Times(x, r) == (x \div r.d) * r.n

\* size * price as an amount of money
Value(size, price) == size * price * 10000

\* an amount of money divided by a size: a price
PricePer(amount, size) == amount \div (size * 10000)

NewPaperTrading ==
  [ initialBalance   |-> initialBalance,
    cashBalance      |-> initialBalance,
    currentPosition  |-> Null,
    tradeHistory     |-> << >>,
    totalRealizedPnL |-> 0 ]

\* what enterPosition and closePosition return ("-" and 0: absent properties)
OrderResult(success, error, required, available, realizedPnL) ==
  [success |-> success, error |-> error, required |-> required,
   available |-> available, realizedPnL |-> realizedPnL]

\* InsufficientFunds looking at the first entry of a position only
InsufficientFundsOnEnter(signal, cashBalance, totalCost) ==
  signal.action = "enter" /\ signal.type = "long" /\ cashBalance < totalCost

\* signal.type === 'long' && this.cashBalance < totalCost
InsufficientFunds(signal, cashBalance, totalCost) ==
  signal.type = "long" /\ cashBalance < totalCost

\* LogTrade leaving an add to the position out of the log
LogTradeEntriesOnce(tradeHistory, tradeLog) ==
  IF tradeLog.signal.action = "add" THEN tradeHistory
  ELSE Append(tradeHistory, tradeLog)

\* this.tradeHistory.push(tradeLog)
LogTrade(tradeHistory, tradeLog) == Append(tradeHistory, tradeLog)

\* ClosedNothing reporting success
ClosedNothingAsSuccess(l) ==
  [ledger |-> l, result |-> OrderResult(TRUE, "-", 0, 0, 0)]

\* closePosition without a position: { success: false, error: 'No position to close' }
ClosedNothing(l) ==
  [ledger |-> l, result |-> OrderResult(FALSE, "No position to close", 0, 0, 0)]

\* EntryExecutionPrice with the slippage in the order's favour
EntryExecutionPriceFavourable(type, currentPrice) ==
  IF type = "long" THEN currentPrice - Times(currentPrice, SLIPPAGE)
  ELSE currentPrice + Times(currentPrice, SLIPPAGE)

\* currentPrice * slippageMultiplier of enterPosition
EntryExecutionPrice(type, currentPrice) ==
  IF type = "long" THEN currentPrice + Times(currentPrice, SLIPPAGE)
  ELSE currentPrice - Times(currentPrice, SLIPPAGE)

\* ExitExecutionPrice without slippage
ExitExecutionPriceAtMarket(type, currentPrice) == currentPrice

\* currentPrice * slippageMultiplier of closePosition
ExitExecutionPrice(type, currentPrice) ==
  IF type = "long" THEN currentPrice - Times(currentPrice, SLIPPAGE)
  ELSE currentPrice + Times(currentPrice, SLIPPAGE)

RECURSIVE TotalValue(_)
\* entries.reduce((sum, e) => sum + (e.entryPrice * e.sizeInBTC), 0)
TotalValue(entries) ==
  IF entries = << >> THEN 0
  ELSE Value(entries[1].sizeInBTC, entries[1].entryPrice) + TotalValue(Tail(entries))

\* the index of the last exit record of the trade history, 0 when there is none
LastExitIndex(h) ==
  IF \E i \in 1..Len(h) : h[i].action = "exit"
  THEN CHOOSE i \in 1..Len(h) :
         h[i].action = "exit" /\ \A j \in (i + 1)..Len(h) : h[j].action # "exit"
  ELSE 0

\* The trade log stores { ...this.currentPosition }, a shallow copy: the
\* records of the open position share its entryLevels and entries arrays,
\* so a push to these arrays shows in every record logged since it opened.
ShareArrays(h, pos) ==
  [i \in 1..Len(h) |->
     IF i > LastExitIndex(h)
     THEN [h[i] EXCEPT !.position.entryLevels = pos.entryLevels,
                       !.position.entries = pos.entries]
     ELSE h[i]]

\* EntryDebit charging the order value for either direction
EntryDebitInFull(type, orderValue, fee) == orderValue + fee

\* the cash debited by an entry: the order and its fee for a long, the fee for a short
EntryDebit(type, orderValue, fee) ==
  IF type = "long" THEN orderValue + fee ELSE fee

\* AddToPosition keeping the average entry price of the first fill
AddToPositionKeepingAverage(pos, signal, entry) ==
  [pos EXCEPT
     !.entryLevels = Append(@, signal.level),
     !.entries = Append(@, entry),
     !.totalContractCount = @ + entry.contractCount,
     !.totalSizeInBTC = @ + entry.sizeInBTC,
     !.totalEntryFees = @ + entry.fee]

\* the position after an entry is added to it (lines 93-101)
AddToPosition(pos, signal, entry) ==
  LET entries   == Append(pos.entries, entry)
      totalSize == pos.totalSizeInBTC + entry.sizeInBTC
  IN [pos EXCEPT
        !.entryLevels = Append(@, signal.level),
        !.entries = entries,
        !.totalContractCount = @ + entry.contractCount,
        !.totalSizeInBTC = totalSize,
        !.avgEntryPrice = PricePer(TotalValue(entries), totalSize),
        !.totalEntryFees = @ + entry.fee]

\* enterPosition: the ledger after the call and the call's result
enterPosition(l, signal, currentPrice, currentDeviation, t) ==
  LET contractCount  == 1
      sizeInBTC      == contractCount * CONTRACT_SIZE
      executionPrice == EntryExecutionPrice(signal.type, currentPrice)
      orderValue     == Value(sizeInBTC, executionPrice)
      fee            == Times(orderValue, TRADING_FEE)
      totalCost      == orderValue + fee
      entry == [ level          |-> signal.level,
                 contractCount  |-> contractCount,
                 sizeInBTC      |-> sizeInBTC,
                 entryPrice     |-> executionPrice,
                 entryDeviation |-> currentDeviation,
                 entryTime      |-> t,
                 fee            |-> fee ]
      position ==
        IF l.currentPosition = Null
        THEN [ type               |-> signal.type,
               totalContractCount |-> contractCount,
               totalSizeInBTC     |-> sizeInBTC,
               entryLevels        |-> <<signal.level>>,
               entries            |-> <<entry>>,
               avgEntryPrice      |-> executionPrice,
               totalEntryFees     |-> fee,
               openedAt           |-> t ]
        ELSE AddToPosition(l.currentPosition[1], signal, entry)
      tradeLog == [ action    |-> "enter",
                    signal    |-> signal,
                    entry     |-> Some(entry),
                    exit      |-> Null,
                    position  |-> position,
                    timestamp |-> t ]
  IN
  IF InsufficientFunds(signal, l.cashBalance, totalCost)
  THEN [ledger |-> l,
        result |-> OrderResult(FALSE, "Insufficient funds", totalCost, l.cashBalance, 0)]
  ELSE [ledger |->
          [l EXCEPT
             !.currentPosition = Some(position),
             !.cashBalance = @ - EntryDebit(signal.type, orderValue, fee),
             !.tradeHistory = LogTrade(ShareArrays(@, position), tradeLog)],
        result |-> OrderResult(TRUE, "-", 0, 0, 0)]

\* ExitCredit paying the exit value for either direction
ExitCreditExitValue(position, exitValue, exitFee) == exitValue - exitFee

\* the cash credited by a close (lines 167-172)
ExitCredit(position, exitValue, exitFee) ==
  IF position.type = "long" THEN exitValue - exitFee
  ELSE Value(position.totalSizeInBTC, position.avgEntryPrice) - exitFee

\* closePosition: the ledger after the call and the call's result
closePosition(l, exitSignal, currentPrice, currentDeviation, t) ==
  IF l.currentPosition = Null
  THEN ClosedNothing(l)
  ELSE
    LET position       == l.currentPosition[1]
        sizeInBTC      == position.totalSizeInBTC
        executionPrice == ExitExecutionPrice(position.type, currentPrice)
        grossPnL ==
          IF position.type = "long"
          THEN Value(sizeInBTC, executionPrice - position.avgEntryPrice)
          ELSE Value(sizeInBTC, position.avgEntryPrice - executionPrice)
        exitValue == Value(sizeInBTC, executionPrice)
        exitFee   == Times(exitValue, TRADING_FEE)
        netPnL    == grossPnL - position.totalEntryFees - exitFee
        exit == [ exitPrice     |-> executionPrice,
                  exitDeviation |-> currentDeviation,
                  exitTime      |-> t,
                  exitFee       |-> exitFee,
                  grossPnL      |-> grossPnL,
                  netPnL        |-> netPnL,
                  entryLevels   |-> position.entryLevels,
                  avgEntryPrice |-> position.avgEntryPrice,
                  contractCount |-> position.totalContractCount,
                  sizeInBTC     |-> sizeInBTC ]
        tradeLog == [ action    |-> "exit",
                      signal    |-> exitSignal,
                      entry     |-> Null,
                      exit      |-> Some(exit),
                      position  |-> position,
                      timestamp |-> t ]
    IN [ledger |->
          [l EXCEPT
             !.cashBalance = @ + ExitCredit(position, exitValue, exitFee),
             !.totalRealizedPnL = @ + netPnL,
             !.tradeHistory = LogTrade(@, tradeLog),
             !.currentPosition = Null],
        result |-> OrderResult(TRUE, "-", 0, 0, netPnL)]

\* updatePosition reporting the figures of an account that never traded
updatePositionOfNewAccount(l, currentPrice, currentDeviation) ==
  [ position                |-> Null,
    unrealizedPnLBeforeFees |-> 0,
    unrealizedPnLAfterFees  |-> 0,
    entryFees               |-> 0,
    estimatedExitFees       |-> 0,
    totalFees               |-> 0,
    totalEquity             |-> l.initialBalance ]

\* updatePosition: the object it returns (the ledger is not assigned to)
updatePosition(l, currentPrice, currentDeviation) ==
  IF l.currentPosition = Null
  THEN [ position                |-> Null,
         unrealizedPnLBeforeFees |-> 0,
         unrealizedPnLAfterFees  |-> 0,
         entryFees               |-> 0,
         estimatedExitFees       |-> 0,
         totalFees               |-> 0,
         totalEquity             |-> l.cashBalance ]
  ELSE
    LET position  == l.currentPosition[1]
        sizeInBTC == position.totalSizeInBTC
        unrealizedPnLBeforeFees ==
          IF position.type = "long"
          THEN Value(sizeInBTC, currentPrice - position.avgEntryPrice)
          ELSE Value(sizeInBTC, position.avgEntryPrice - currentPrice)
        entryFees         == position.totalEntryFees
        exitValue         == Value(sizeInBTC, currentPrice)
        estimatedExitFees == Times(exitValue, TRADING_FEE)
        totalFees         == entryFees + estimatedExitFees
        unrealizedPnLAfterFees == unrealizedPnLBeforeFees - totalFees
        positionValue ==
          IF position.type = "long" THEN Value(sizeInBTC, currentPrice)
          ELSE Value(sizeInBTC, position.avgEntryPrice - currentPrice)
    IN [ position                |-> Some(position),
         unrealizedPnLBeforeFees |-> unrealizedPnLBeforeFees,
         unrealizedPnLAfterFees  |-> unrealizedPnLAfterFees,
         entryFees               |-> entryFees,
         estimatedExitFees       |-> estimatedExitFees,
         totalFees               |-> totalFees,
         totalEquity             |->
           l.cashBalance + (IF position.type = "long" THEN positionValue
                            ELSE l.initialBalance + unrealizedPnLAfterFees) ]

\* the exit records of a trade history: tradeHistory.filter(t => t.action === 'exit')
closedTrades(tradeHistory) == SelectSeq(tradeHistory, LAMBDA t : t.action = "exit")

\* getPerformance counting every record of the history as a trade
getPerformanceOfAllRecords(l) ==
  [ totalTrades        |-> Len(l.tradeHistory),
    winningTrades      |-> Len(SelectSeq(closedTrades(l.tradeHistory),
                                         LAMBDA t : t.exit[1].netPnL > 0)),
    losingTrades       |-> Len(SelectSeq(closedTrades(l.tradeHistory),
                                         LAMBDA t : t.exit[1].netPnL <= 0)),
    winRate            |-> Num(0),
    totalRealizedPnL   |-> l.totalRealizedPnL,
    totalReturn        |-> Rat(l.totalRealizedPnL, l.initialBalance \div 100),
    currentCashBalance |-> l.cashBalance ]

\* getPerformance: the summary it returns; winRate and totalReturn are
\* percentages
getPerformance(l) ==
  LET closed  == closedTrades(l.tradeHistory)
      winning == SelectSeq(closed, LAMBDA t : t.exit[1].netPnL > 0)
      losing  == SelectSeq(closed, LAMBDA t : t.exit[1].netPnL <= 0)
  IN [ totalTrades        |-> Len(closed),
       winningTrades      |-> Len(winning),
       losingTrades       |-> Len(losing),
       winRate            |-> IF Len(closed) > 0
                              THEN Rat(Len(winning) * 100, Len(closed))
                              ELSE Num(0),
       totalRealizedPnL   |-> l.totalRealizedPnL,
       totalReturn        |-> Rat(l.totalRealizedPnL, l.initialBalance \div 100),
       currentCashBalance |-> l.cashBalance ]

\* reset: the account as it was opened
reset(l) ==
  [l EXCEPT
     !.cashBalance = l.initialBalance,
     !.currentPosition = Null,
     !.tradeHistory = << >>,
     !.totalRealizedPnL = 0]

----------------------------------------------------------------------------
(* CoinbaseWebSocket                                                       *)

\* this.maxReconnectDelay, in milliseconds
maxReconnectDelay == 30000

\* The constructor's field values. sockets holds every WebSocket object the
\* client created, in order, by its state: "connecting", "open", "closing"
\* (close() was called on it, its close event is to come), "failed" (closed
\* before it opened), "dropped" (closed after it opened), "closed" (closed
\* after close() was called). ws is this.ws as an index into sockets, 0 for
\* null; timers counts the setTimeout callbacks of reconnect() yet to run.
NewCoinbaseWebSocket ==
  [ sockets        |-> << >>,
    ws             |-> 0,
    isConnecting   |-> FALSE,
    isConnected    |-> FALSE,
    reconnectDelay |-> 1000,
    timers         |-> 0 ]

\* connect(): nothing when connecting or connected, else a new WebSocket
connect(w) ==
  IF w.isConnecting \/ w.isConnected THEN w
  ELSE [w EXCEPT
          !.isConnecting = TRUE,
          !.sockets = Append(@, "connecting"),
          !.ws = Len(w.sockets) + 1]

\* connect() stays within the sockets the model provides
CanConnect(w) ==
  w.isConnecting \/ w.isConnected \/ Len(w.sockets) < MaxSockets

\* the 'open' handler of socket i
OnOpen(w, i) ==
  [w EXCEPT
     !.sockets[i] = "open",
     !.isConnecting = FALSE,
     !.isConnected = TRUE,
     !.reconnectDelay = 1000]

\* reconnect(): nothing while isConnecting, else a timer that will connect
reconnect(w) ==
  IF w.isConnecting THEN w ELSE [w EXCEPT !.timers = @ + 1]

\* the 'close' handler of socket i: isConnected = false, then reconnect()
OnClose(w, i) ==
  reconnect([w EXCEPT
               !.sockets[i] = IF @ = "connecting" THEN "failed"
                              ELSE IF @ = "open" THEN "dropped"
                              ELSE "closed",
               !.isConnected = FALSE])

\* the setTimeout callback of reconnect(): double the delay, then connect()
OnReconnectTimer(w) ==
  connect([w EXCEPT
             !.timers = @ - 1,
             !.reconnectDelay = Min(@ * 2, maxReconnectDelay)])

\* disconnect(): this.ws.close() when there is a socket (its close event
\* follows later; close() on a socket that has closed does nothing), then
\* this.ws = null and both flags false
disconnect(w) ==
  [w EXCEPT
     !.sockets = IF w.ws # 0 /\ @[w.ws] \in {"connecting", "open"}
                 THEN [@ EXCEPT ![w.ws] = "closing"]
                 ELSE @,
     !.ws = 0,
     !.isConnected = FALSE,
     !.isConnecting = FALSE]

----------------------------------------------------------------------------
(* VWAPTracker                                                             *)

\* The tracker after its constructor: start() not called yet ("new"), and
\* the cleanup interval set. The phases of start() are "fetching" (awaiting
\* fetchHistoricalCandles) and "running" (initialized, connect() called);
\* "waiting" is the pause of POST /api/restart between stop() and start().
NewVWAPTracker == [phase |-> "new", cleanupInterval |-> TRUE]

\* stop(): this.ws.disconnect() and clearInterval(this.cleanupInterval)
stopTracker(w, tr) ==
  [ws |-> disconnect(w), tracker |-> [tr EXCEPT !.cleanupInterval = FALSE]]

----------------------------------------------------------------------------
(* Inputs                                                                  *)

\* the (high, low, close) of the candles the feed sends
CandleShapes ==
  { [high |-> 3, low |-> 1, close |-> 2],
    [high |-> 4, low |-> 2, close |-> 4] }

\* candle volumes
Volumes == {0, 1}

\* The candles the feed sends at time t: the candle in progress (a new one, or
\* a revision of the one stored) and, the exchange's clock running ahead of
\* the local one, the candle of the next interval.
CandleInputs(t) ==
  { [start |-> s, high |-> sh.high, low |-> sh.low, close |-> sh.close, volume |-> v] :
      s \in {t, t + 1}, sh \in CandleShapes, v \in Volumes }

\* ticker prices
TickerPrices == {5}

\* array lengths for percentile: empty, short, and the lengths at which
\* neighbouring ranks part (10, 20, 100)
PercentileLengths == {0, 1, 2, 3, 10, 20, 100}

\* ascending arrays: base + floor(i * step / divisor), ties included
SortedArrays ==
  { [i \in 1..n |-> base + (i * step) \div divisor] :
      n \in PercentileLengths, base \in {-50, 0}, step \in 0..3, divisor \in {1, 3, 7} }

\* the candles of a backfill fetched at time t: of the last interval or the
\* current one, traded at either shape or not traded at all
BackfillCandles(t) ==
  { [start |-> s, high |-> 3, low |-> 1, close |-> 2, volume |-> v] :
      s \in {t - 1, t}, v \in Volumes }
    \cup { [start |-> s, high |-> 4, low |-> 2, close |-> 4, volume |-> 1] :
             s \in {t - 1, t} }

\* the backfills fetched at time t: no candle (the request failed), one, or
\* two in any order, the same start twice included (consecutive requests
\* share their boundary)
Backfills(t) ==
  {<< >>} \cup {<<c>> : c \in BackfillCandles(t)}
          \cup {<<c1, c2>> : c1 \in BackfillCandles(t), c2 \in BackfillCandles(t)}

\* deviationPercent values: each threshold, and a value on either side of it
DeviationValues ==
  { -241, -240, -239, -150, -91, -90, -89, -76, -75, -74, -10, -9, 0,
    9, 10, 59, 60, 61, 65, 74, 75, 76, 85, 150, 224, 225, 226 }

Percentiles(p5, p10, p90, p95) ==
  [percentile5Percent |-> p5, percentile10Percent |-> p10,
   percentile90Percent |-> p90, percentile95Percent |-> p95]

\* percentile sets of the deviation history: the absolute floor wins, the
\* percentile wins, and percentiles beyond the stop-loss levels
PercentileValues ==
  { Percentiles(-90, -75, 70, 85),
    Percentiles(-76, -60, 55, 85),
    Percentiles(-150, -91, 76, 150) }

\* market prices, in price units (multiples of 4000)
Prices == {4000, 8000}

\* the stats object handed to the strategy: getStats() of the tracker. The
\* deviation is null when the VWAP is; the history stats are null when the
\* deviation history is empty.
StatsOf(price, deviationPercent, percentiles) ==
  [currentPrice |-> price, deviationPercent |-> deviationPercent,
   percentiles |-> percentiles]

StrategyStats ==
  { StatsOf(4000, d, p) :
      d \in {Null} \cup {Some(v) : v \in DeviationValues},
      p \in {Null} \cup {Some(v) : v \in PercentileValues} }

\* the positions the ledger hands to the strategy, as far as the strategy reads them
PositionArg(type, levels) ==
  [type |-> type, totalContractCount |-> Len(levels), entryLevels |-> levels]

PositionArgs ==
  { Null,
    Some(PositionArg("short", <<"Short1">>)),
    Some(PositionArg("short", <<"Short1", "Short2">>)),
    Some(PositionArg("long", <<"Long1">>)),
    Some(PositionArg("long", <<"Long1", "Long2">>)) }

\* the prices the ledger is called with: two at which the balance buys a
\* contract and one at which it does not
LedgerPrices == {4000, 8000, 44000}

\* the entry signals the ledger is called with
LedgerSignals ==
  { Signal("enter", "short", "Short1", "-", "entry"),
    Signal("add", "short", "Short2", "-", "add"),
    Signal("enter", "long", "Long1", "-", "entry"),
    Signal("add", "long", "Long2", "-", "add") }

\* the exit signals the ledger is called with
LedgerExitSignals ==
  { Signal("close", "-", "-", "take_profit", "Take profit"),
    Signal("close", "-", "-", "stop_loss", "Stop loss (absolute)"),
    Signal("close", "-", "-", "manual", "Algorithm stopped (kill switch)") }

\* the deviations of the server's events: the values that move the strategy
\* under ServerPercentiles (both entries of either side, take profit, both
\* stops) and the null of a window without volume
ServerDeviations == {Null, Some(-240), Some(-90), Some(0), Some(85), Some(225)}

ServerPercentiles == Percentiles(-90, -75, 70, 85)

\* getStats() of the tracker: with a deviation history, and before any data
ServerStats ==
  { StatsOf(pr, d, Some(ServerPercentiles)) : pr \in Prices, d \in ServerDeviations }
    \cup { StatsOf(4000, Null, Null) }

\* the candles start() fetches and the candle the feed sends, for the tracker
\* with its connection
TrackerBackfills(t) ==
  { << >>, <<[start |-> t - 1, high |-> 3, low |-> 1, close |-> 2, volume |-> 1]>> }

FeedCandles(t) == { [start |-> t, high |-> 4, low |-> 2, close |-> 4, volume |-> 1] }

----------------------------------------------------------------------------
(* History variable                                                        *)

NoAggregatorNote == [revised |-> FALSE, byAge |-> 0, byBudget |-> 0]

\* what a cleanup pass removed: candles by age, candles over the budget, and
\* snapshots of the deviation history
NoCleanupNote == [byAge |-> 0, byBudget |-> 0, pruned |-> 0]

NoStats == StatsOf(0, Null, Null)

NoOrder == OrderResult(FALSE, "not_called", 0, 0, 0)

\* updatePosition and getPerformance not called
NoPositionState ==
  [ position                |-> Null,
    unrealizedPnLBeforeFees |-> 0,
    unrealizedPnLAfterFees  |-> 0,
    entryFees               |-> 0,
    estimatedExitFees       |-> 0,
    totalFees               |-> 0,
    totalEquity             |-> 0 ]

NoPerformance ==
  [ totalTrades        |-> 0,
    winningTrades      |-> 0,
    losingTrades       |-> 0,
    winRate            |-> Num(0),
    totalRealizedPnL   |-> 0,
    totalReturn        |-> Num(0),
    currentCashBalance |-> 0 ]

NoCall ==
  [ op              |-> "none",
    stats           |-> NoStats,
    lockBefore      |-> "null",     \* waitingForNeutralReentry when the operation began
    ledgerBefore    |-> NewPaperTrading, \* the ledger when the operation began
    positionAtExit  |-> Null,       \* the position evaluateExit was given
    exit            |-> NotCalled,  \* what evaluateExit returned
    closed          |-> NoOrder,    \* what closePosition returned
    positionAtEntry |-> Null,       \* the position evaluateEntry was given
    lockAtEntry     |-> "null",     \* waitingForNeutralReentry when evaluateEntry began
    pendingAtEntry  |-> FALSE,      \* stopLossPending when evaluateEntry began
    entry           |-> NotCalled,  \* what evaluateEntry returned
    entered         |-> NoOrder,    \* what enterPosition returned
    aggregator      |-> NoAggregatorNote,
    cleanup         |-> NoCleanupNote,
    signal          |-> NotCalled,  \* the signal enterPosition or closePosition was given
    positionState   |-> NoPositionState, \* what updatePosition returned
    performance     |-> NoPerformance,   \* what getPerformance returned
    percentileOf    |-> [arr |-> << >>, p |-> 0, result |-> << >>,
                         all |-> [q \in {} |-> << >>]],
                                    \* percentile's arguments, its result, and
                                    \* its results for every rank on this array
    backfill        |-> [size |-> 0, starts |-> 0],
    permuted        |-> NewRollingVWAP ]
                                    \* the aggregator start() would leave had the
                                    \* candles arrived in the opposite order
                                    \* the candles start() fetched, and their distinct starts

\* stopLossPending after evaluateExit returned `exit`
PendingAfterExit(pending, exit) ==
  pending \/ (exit.action = "close" /\ exit.exitType = "stop_loss")

\* stopLossPending after evaluateEntry was called with this deviation
PendingAfterEntry(pending, deviationPercent) ==
  pending /\ ~(deviationPercent # Null /\ InNeutralRange(deviationPercent))

----------------------------------------------------------------------------
(* The system                                                              *)

Init ==
  /\ now = 1
  /\ rollingVWAP = NewRollingVWAP
  /\ strategy = NewStrategy
  /\ paperTrading = NewPaperTrading
  /\ algorithmRunning = FALSE
  /\ ws = NewCoinbaseWebSocket
  /\ tracker = NewVWAPTracker
  /\ lastCall = NoCall
  /\ stopLossPending = FALSE

\* Date.now() moves on
ClockTick ==
  /\ now < MaxTime
  /\ now' = now + 1
  /\ lastCall' = [NoCall EXCEPT !.op = "clock"]
  /\ UNCHANGED <<ws, tracker, rollingVWAP, strategy, paperTrading, algorithmRunning, stopLossPending>>

(* RollingVWAP's operations, as the tracker calls them *)

\* ws.on('candle'): rollingVWAP.updateCandle(candle)
UpdateCandle ==
  \E c \in CandleInputs(now) :
    LET revised == c.start \in DOMAIN rollingVWAP.candles
        aged    == RemoveByAge(rollingVWAP, now - WindowIntervals)
        byAge   == IF revised THEN 0
                   ELSE Cardinality(DOMAIN rollingVWAP.candles)
                          - Cardinality(DOMAIN aged.candles)
        byBudget == IF revised THEN 0
                    ELSE Cardinality(DOMAIN aged.candles)
                           - Cardinality(DOMAIN RemoveOverBudget(aged).candles)
    IN /\ rollingVWAP' = updateCandle(rollingVWAP, c, now)
       /\ lastCall' = [NoCall EXCEPT
                         !.op = "updateCandle",
                         !.aggregator = [revised |-> revised, byAge |-> byAge,
                                         byBudget |-> byBudget]]
       /\ UNCHANGED <<ws, tracker, now, strategy, paperTrading, algorithmRunning, stopLossPending>>

\* ws.on('ticker'): rollingVWAP.updatePrice(ticker.price)
UpdatePrice ==
  \E price \in TickerPrices :
    /\ rollingVWAP' = updatePrice(rollingVWAP, price, now)
    /\ lastCall' = [NoCall EXCEPT !.op = "updatePrice"]
    /\ UNCHANGED <<ws, tracker, now, strategy, paperTrading, algorithmRunning, stopLossPending>>

\* the setInterval callback: removeOldCandles(), then updateStats()
Cleanup ==
  LET aged   == RemoveByAge(rollingVWAP, now - WindowIntervals)
      pruned == removeOldCandles(rollingVWAP, now)
  IN /\ tracker.cleanupInterval
     /\ rollingVWAP' = updateStats(pruned)
     /\ lastCall' = [NoCall EXCEPT
                       !.op = "cleanup",
                       !.cleanup =
                          [byAge    |-> Cardinality(DOMAIN rollingVWAP.candles)
                                          - Cardinality(DOMAIN aged.candles),
                           byBudget |-> Cardinality(DOMAIN aged.candles)
                                          - Cardinality(DOMAIN pruned.candles),
                           pruned   |-> Len(rollingVWAP.deviationHistory)
                                          - Len(pruned.deviationHistory)]]
     /\ UNCHANGED <<ws, tracker, now, strategy, paperTrading, algorithmRunning, stopLossPending>>

NextAggregator == ClockTick \/ UpdateCandle \/ UpdatePrice \/ Cleanup

SpecAggregator == Init /\ [][NextAggregator]_vars

(* the cleanup timer firing while the feed is live and after it went silent *)

\* the clock of the cleanup timer runs on until every candle and snapshot
\* received has left its window
MaxCleanupTime == MaxTime + DeviationIntervals

LateClockTick ==
  /\ now < MaxCleanupTime
  /\ now' = now + 1
  /\ lastCall' = [NoCall EXCEPT !.op = "clock"]
  /\ UNCHANGED <<ws, tracker, rollingVWAP, strategy, paperTrading, algorithmRunning, stopLossPending>>

\* ws.on('candle') while the feed is live
LiveCandle == now < MaxTime /\ UpdateCandle

NextCleanup == LateClockTick \/ LiveCandle \/ Cleanup

SpecCleanup == Init /\ [][NextCleanup]_vars

(* the tracker with its backfill *)

\* a batch of candles in the opposite order
Reverse(q) == [i \in 1..Len(q) |-> q[Len(q) + 1 - i]]

\* VWAPTracker.start(): fetchHistoricalCandles, then both initializations
StartTracker ==
  \E allHistoricalCandles \in Backfills(now) :
    /\ rollingVWAP' = startTracker(rollingVWAP, allHistoricalCandles, now)
    /\ lastCall' = [NoCall EXCEPT
                      !.op = "start_tracker",
                      !.backfill =
                         [size   |-> Len(allHistoricalCandles),
                          starts |-> Cardinality({allHistoricalCandles[i].start :
                                       i \in 1..Len(allHistoricalCandles)})],
                      !.permuted =
                         startTracker(rollingVWAP, Reverse(allHistoricalCandles), now)]
    /\ UNCHANGED <<ws, tracker, now, strategy, paperTrading, algorithmRunning, stopLossPending>>

\* the tracker within one candle interval: its start, the candles of the
\* feed and the cleanup tick
NextBackfill == StartTracker \/ UpdateCandle \/ Cleanup

SpecBackfill == Init /\ [][NextBackfill]_vars

(* the percentile function, called with any sorted array *)

Percentile ==
  \E arr \in SortedArrays, p \in PercentileRanks :
    /\ lastCall' = [NoCall EXCEPT
                      !.op = "percentile",
                      !.percentileOf =
                         [arr |-> arr, p |-> p, result |-> percentile(arr, p),
                          all |-> [q \in PercentileRanks |-> percentile(arr, q)]]]
    /\ UNCHANGED <<ws, tracker, now, rollingVWAP, strategy, paperTrading, algorithmRunning,
                   stopLossPending>>

NextPercentile == Percentile

SpecPercentile == Init /\ [][NextPercentile]_vars

(* PaperTrading's operations, called with any signal and price; a position
   is given at most the two entries the strategy's rules allow *)

EnterPosition ==
  \E signal \in LedgerSignals, currentPrice \in LedgerPrices :
    LET r == enterPosition(paperTrading, signal, currentPrice, Some(0), now)
    IN /\ Len(paperTrading.tradeHistory) < MaxTradeRecords
       /\ paperTrading.currentPosition # Null
            => paperTrading.currentPosition[1].totalContractCount < 2
       /\ paperTrading' = r.ledger
       /\ lastCall' = [NoCall EXCEPT
                         !.op = "enterPosition",
                         !.stats = StatsOf(currentPrice, Some(0), Null),
                         !.signal = signal,
                         !.ledgerBefore = paperTrading,
                         !.entered = r.result]
       /\ UNCHANGED <<ws, tracker, now, rollingVWAP, strategy, algorithmRunning, stopLossPending>>

ClosePosition ==
  \E exitSignal \in LedgerExitSignals, currentPrice \in LedgerPrices :
    LET r == closePosition(paperTrading, exitSignal, currentPrice, Some(0), now)
    IN /\ Len(paperTrading.tradeHistory) < MaxTradeRecords
       /\ paperTrading' = r.ledger
       /\ lastCall' = [NoCall EXCEPT
                         !.op = "closePosition",
                         !.stats = StatsOf(currentPrice, Some(0), Null),
                         !.signal = exitSignal,
                         !.ledgerBefore = paperTrading,
                         !.closed = r.result]
       /\ UNCHANGED <<ws, tracker, now, rollingVWAP, strategy, algorithmRunning, stopLossPending>>

UpdatePosition ==
  \E currentPrice \in LedgerPrices :
    /\ lastCall' = [NoCall EXCEPT
                      !.op = "updatePosition",
                      !.stats = StatsOf(currentPrice, Some(0), Null),
                      !.ledgerBefore = paperTrading,
                      !.positionState =
                         updatePosition(paperTrading, currentPrice, Some(0))]
    /\ UNCHANGED <<ws, tracker, now, rollingVWAP, strategy, paperTrading, algorithmRunning,
                   stopLossPending>>

GetPerformance ==
  /\ lastCall' = [NoCall EXCEPT
                    !.op = "getPerformance",
                    !.ledgerBefore = paperTrading,
                    !.performance = getPerformance(paperTrading)]
  /\ UNCHANGED <<ws, tracker, now, rollingVWAP, strategy, paperTrading, algorithmRunning,
                 stopLossPending>>

Reset ==
  /\ paperTrading' = reset(paperTrading)
  /\ lastCall' = [NoCall EXCEPT !.op = "reset", !.ledgerBefore = paperTrading]
  /\ UNCHANGED <<ws, tracker, now, rollingVWAP, strategy, algorithmRunning, stopLossPending>>

NextLedger ==
  \/ EnterPosition \/ ClosePosition \/ UpdatePosition \/ GetPerformance
  \/ Reset \/ ClockTick

SpecLedger == Init /\ [][NextLedger]_vars

(* Strategy's operations, called with any stats and any position *)

EvaluateEntry ==
  \E stats \in StrategyStats, position \in PositionArgs :
    LET r == evaluateEntry(strategy, stats, position)
    IN /\ strategy' = r.strategy
       /\ stopLossPending' = PendingAfterEntry(stopLossPending, stats.deviationPercent)
       /\ lastCall' = [NoCall EXCEPT
                         !.op = "evaluateEntry",
                         !.stats = stats,
                         !.lockBefore = strategy.waitingForNeutralReentry,
                         !.positionAtEntry = position,
                         !.lockAtEntry = strategy.waitingForNeutralReentry,
                         !.pendingAtEntry = stopLossPending,
                         !.entry = r.result]
       /\ UNCHANGED <<ws, tracker, now, rollingVWAP, paperTrading, algorithmRunning>>

EvaluateExit ==
  \E stats \in StrategyStats, position \in PositionArgs :
    LET r == evaluateExit(strategy, stats, position)
    IN /\ strategy' = r.strategy
       /\ stopLossPending' = PendingAfterExit(stopLossPending, r.result)
       /\ lastCall' = [NoCall EXCEPT
                         !.op = "evaluateExit",
                         !.stats = stats,
                         !.lockBefore = strategy.waitingForNeutralReentry,
                         !.positionAtExit = position,
                         !.exit = r.result]
       /\ UNCHANGED <<ws, tracker, now, rollingVWAP, paperTrading, algorithmRunning>>

NextStrategy == EvaluateEntry \/ EvaluateExit

SpecStrategy == Init /\ [][NextStrategy]_vars

(* The server: the update listener and the HTTP handlers. The stats of an
   event are drawn from ServerStats: every pair of a price and a deviation
   is one the aggregator can report, its VWAP being any positive number. *)

\* exitSignal of the kill switch and of the restart
ManualExit(reason) == Signal("close", "-", "-", "manual", reason)

\* PositionAtEntry reading the position the event began with
PositionAtEntryStale(l, afterExit) == l.currentPosition

\* const currentPos = paperTrading.getPosition(), read after the exit check:
\* l is the ledger when the event began, afterExit the ledger the exit check left
PositionAtEntry(l, afterExit) == afterExit.currentPosition

\* the calls of the update listener while the algorithm runs (lines 198-224).
\* A TypeError thrown by evaluateEntry ends the listener: no order follows.
RunAlgorithm(s, l, stats, t) ==
  LET position0 == l.currentPosition
      exitR  == IF position0 # Null
                THEN evaluateExit(s, stats, position0)
                ELSE [strategy |-> s, result |-> NotCalled]
      closeR == IF exitR.result.action = "close"
                THEN closePosition(l, exitR.result, stats.currentPrice,
                                   stats.deviationPercent, t)
                ELSE [ledger |-> l, result |-> NoOrder]
      currentPos == PositionAtEntry(l, closeR.ledger)
      entryR == evaluateEntry(exitR.strategy, stats, currentPos)
      enterR == IF entryR.result.action \in {"enter", "add"}
                THEN enterPosition(closeR.ledger, entryR.result, stats.currentPrice,
                                   stats.deviationPercent, t)
                ELSE [ledger |-> closeR.ledger, result |-> NoOrder]
  IN [ strategy |-> entryR.strategy,
       ledger   |-> enterR.ledger,
       pending  |-> PendingAfterEntry(PendingAfterExit(stopLossPending, exitR.result),
                                      stats.deviationPercent),
       call     |-> [NoCall EXCEPT
                       !.op = "update",
                       !.stats = stats,
                       !.lockBefore = s.waitingForNeutralReentry,
                       !.ledgerBefore = l,
                       !.positionAtExit = position0,
                       !.exit = exitR.result,
                       !.closed = closeR.result,
                       !.positionAtEntry = currentPos,
                       !.lockAtEntry = exitR.strategy.waitingForNeutralReentry,
                       !.pendingAtEntry = PendingAfterExit(stopLossPending, exitR.result),
                       !.entry = entryR.result,
                       !.entered = enterR.result] ]

\* vwapTracker.on('update', ...)
UpdateEvent ==
  \E stats \in ServerStats :
    IF algorithmRunning
    THEN LET r == RunAlgorithm(strategy, paperTrading, stats, now)
         IN /\ Len(r.ledger.tradeHistory) <= MaxTradeRecords
            /\ strategy' = r.strategy
            /\ paperTrading' = r.ledger
            /\ stopLossPending' = r.pending
            /\ lastCall' = r.call
            /\ UNCHANGED <<ws, tracker, now, rollingVWAP, algorithmRunning>>
    ELSE /\ lastCall' = [NoCall EXCEPT
                           !.op = "update",
                           !.ledgerBefore = paperTrading,
                           !.lockBefore = strategy.waitingForNeutralReentry,
                           !.lockAtEntry = strategy.waitingForNeutralReentry]
         /\ UNCHANGED <<ws, tracker, now, rollingVWAP, strategy, paperTrading, algorithmRunning,
                        stopLossPending>>

\* GET /api/stats: updatePosition and the strategy's getters, none of which assigns
ApiStats ==
  \E stats \in ServerStats :
    /\ lastCall' = [NoCall EXCEPT
                      !.op = "stats",
                      !.ledgerBefore = paperTrading,
                      !.lockBefore = strategy.waitingForNeutralReentry,
                      !.lockAtEntry = strategy.waitingForNeutralReentry]
    /\ UNCHANGED <<ws, tracker, now, rollingVWAP, strategy, paperTrading, algorithmRunning,
                   stopLossPending>>

\* POST /api/algorithm/start
AlgorithmStart ==
  /\ algorithmRunning' = TRUE
  /\ lastCall' = [NoCall EXCEPT
                    !.op = "start",
                    !.ledgerBefore = paperTrading,
                    !.lockBefore = strategy.waitingForNeutralReentry,
                    !.lockAtEntry = strategy.waitingForNeutralReentry]
  /\ UNCHANGED <<ws, tracker, now, rollingVWAP, strategy, paperTrading, stopLossPending>>

\* the stop and restart handlers without their kill switch: the position is left alone
KillSwitchLeavingPosition(l, stats, reason, t) ==
  [ledger |-> l, result |-> NoOrder]

\* the kill switch of /api/algorithm/stop and /api/restart: close the open position
KillSwitch(l, stats, reason, t) ==
  IF l.currentPosition # Null
  THEN closePosition(l, ManualExit(reason), stats.currentPrice,
                     stats.deviationPercent, t)
  ELSE [ledger |-> l, result |-> NoOrder]

\* POST /api/algorithm/stop
AlgorithmStop ==
  \E stats \in ServerStats :
    LET r == KillSwitch(paperTrading, stats, "Algorithm stopped (kill switch)", now)
    IN /\ Len(r.ledger.tradeHistory) <= MaxTradeRecords
       /\ paperTrading' = r.ledger
       /\ algorithmRunning' = FALSE
       /\ lastCall' = [NoCall EXCEPT
                         !.op = "stop",
                         !.stats = IF paperTrading.currentPosition # Null
                                   THEN stats ELSE NoStats,
                         !.lockBefore = strategy.waitingForNeutralReentry,
                         !.lockAtEntry = strategy.waitingForNeutralReentry,
                         !.ledgerBefore = paperTrading,
                         !.closed = r.result]
       /\ UNCHANGED <<ws, tracker, now, rollingVWAP, strategy, stopLossPending>>

\* POST /api/restart: its part on the flag and the ledger; the tracker's stop
\* and start are RestartRequest, RestartResume and BackfillDone below
Restart ==
  \E stats \in ServerStats :
    LET r == KillSwitch(paperTrading, stats, "Tracker restart", now)
    IN /\ Len(r.ledger.tradeHistory) <= MaxTradeRecords
       /\ paperTrading' = r.ledger
       /\ algorithmRunning' = FALSE
       /\ lastCall' = [NoCall EXCEPT
                         !.op = "restart",
                         !.stats = IF paperTrading.currentPosition # Null
                                   THEN stats ELSE NoStats,
                         !.lockBefore = strategy.waitingForNeutralReentry,
                         !.lockAtEntry = strategy.waitingForNeutralReentry,
                         !.ledgerBefore = paperTrading,
                         !.closed = r.result]
       /\ UNCHANGED <<ws, tracker, now, rollingVWAP, strategy, stopLossPending>>

Next == UpdateEvent \/ ApiStats \/ AlgorithmStart \/ AlgorithmStop \/ Restart

Spec == Init /\ [][Next]_vars

(* the WebSocket client: connect() and disconnect() called at any time, the
   events of its sockets and its reconnect timers *)

Connect ==
  /\ CanConnect(ws)
  /\ ws' = connect(ws)
  /\ lastCall' = [NoCall EXCEPT !.op = "connect"]
  /\ UNCHANGED <<now, rollingVWAP, strategy, paperTrading, algorithmRunning,
                 tracker, stopLossPending>>

Disconnect ==
  /\ ws' = disconnect(ws)
  /\ lastCall' = [NoCall EXCEPT !.op = "disconnect"]
  /\ UNCHANGED <<now, rollingVWAP, strategy, paperTrading, algorithmRunning,
                 tracker, stopLossPending>>

\* the socket's 'open' event
SocketOpen ==
  \E i \in 1..Len(ws.sockets) :
    /\ ws.sockets[i] = "connecting"
    /\ ws' = OnOpen(ws, i)
    /\ lastCall' = [NoCall EXCEPT !.op = "socket_open"]
    /\ UNCHANGED <<now, rollingVWAP, strategy, paperTrading, algorithmRunning,
                   tracker, stopLossPending>>

\* the attempt fails: the socket's 'error' event, which the client passes on,
\* then its 'close' event
SocketFail ==
  \E i \in 1..Len(ws.sockets) :
    /\ ws.sockets[i] = "connecting"
    /\ ws' = OnClose(ws, i)
    /\ lastCall' = [NoCall EXCEPT !.op = "socket_fail"]
    /\ UNCHANGED <<now, rollingVWAP, strategy, paperTrading, algorithmRunning,
                   tracker, stopLossPending>>

\* the established connection drops: the socket's 'close' event
SocketDrop ==
  \E i \in 1..Len(ws.sockets) :
    /\ ws.sockets[i] = "open"
    /\ ws' = OnClose(ws, i)
    /\ lastCall' = [NoCall EXCEPT !.op = "socket_drop"]
    /\ UNCHANGED <<now, rollingVWAP, strategy, paperTrading, algorithmRunning,
                   tracker, stopLossPending>>

\* the 'close' event of a socket that disconnect() closed
SocketClosed ==
  \E i \in 1..Len(ws.sockets) :
    /\ ws.sockets[i] = "closing"
    /\ ws' = OnClose(ws, i)
    /\ lastCall' = [NoCall EXCEPT !.op = "socket_closed"]
    /\ UNCHANGED <<now, rollingVWAP, strategy, paperTrading, algorithmRunning,
                   tracker, stopLossPending>>

\* a timer of reconnect() runs
ReconnectTimer ==
  /\ ws.timers > 0
  /\ CanConnect([ws EXCEPT !.timers = @ - 1])
  /\ ws' = OnReconnectTimer(ws)
  /\ lastCall' = [NoCall EXCEPT !.op = "reconnect_timer"]
  /\ UNCHANGED <<now, rollingVWAP, strategy, paperTrading, algorithmRunning,
                 tracker, stopLossPending>>

NextSocket ==
  \/ Connect \/ Disconnect \/ SocketOpen \/ SocketFail \/ SocketDrop
  \/ SocketClosed \/ ReconnectTimer

SpecSocket == Init /\ [][NextSocket]_vars

\* timers run, a connection attempt opens or fails, and a socket that was
\* told to close closes
FairSpecSocket ==
  /\ SpecSocket
  /\ WF_vars(ReconnectTimer)
  /\ WF_vars(SocketOpen \/ SocketFail)
  /\ WF_vars(SocketClosed)

(* the tracker with its connection: the server starts it, and POST
   /api/restart stops and starts it, one request at a time. An attempt that
   fails ends the process (nothing listens to the tracker's 'error' event),
   so here an attempt opens or stays as it is. *)

\* app.listen callback: vwapTracker.start() up to its await
ServerStart ==
  /\ tracker.phase = "new"
  /\ tracker' = [tracker EXCEPT !.phase = "fetching"]
  /\ lastCall' = [NoCall EXCEPT !.op = "tracker_start"]
  /\ UNCHANGED <<now, rollingVWAP, strategy, paperTrading, algorithmRunning,
                 ws, stopLossPending>>

\* start() after fetchHistoricalCandles: both initializations, then ws.connect()
BackfillDone ==
  \E allHistoricalCandles \in TrackerBackfills(now) :
    /\ tracker.phase = "fetching"
    /\ CanConnect(ws)
    /\ rollingVWAP' = startTracker(rollingVWAP, allHistoricalCandles, now)
    /\ ws' = connect(ws)
    /\ tracker' = [tracker EXCEPT !.phase = "running"]
    /\ lastCall' = [NoCall EXCEPT !.op = "tracker_ready"]
    /\ UNCHANGED <<now, strategy, paperTrading, algorithmRunning, stopLossPending>>

\* POST /api/restart up to its first await: the flag, the kill switch,
\* vwapTracker.stop()
RestartRequest ==
  LET r == KillSwitch(paperTrading, NoStats, "Tracker restart", now)
      stopped == stopTracker(ws, tracker)
  IN /\ tracker.phase = "running"
     /\ algorithmRunning' = FALSE
     /\ paperTrading' = r.ledger
     /\ ws' = stopped.ws
     /\ tracker' = [stopped.tracker EXCEPT !.phase = "waiting"]
     /\ lastCall' = [NoCall EXCEPT !.op = "restart_request",
                                   !.ledgerBefore = paperTrading]
     /\ UNCHANGED <<now, rollingVWAP, strategy, stopLossPending>>

\* POST /api/restart after its pause of a second: vwapTracker.start() up to
\* its await
RestartResume ==
  /\ tracker.phase = "waiting"
  /\ tracker' = [tracker EXCEPT !.phase = "fetching"]
  /\ lastCall' = [NoCall EXCEPT !.op = "restart_resume"]
  /\ UNCHANGED <<now, rollingVWAP, strategy, paperTrading, algorithmRunning,
                 ws, stopLossPending>>

\* a ticker message on an open socket: rollingVWAP.updatePrice(ticker.price)
FeedTicker ==
  \E i \in 1..Len(ws.sockets), price \in TickerPrices :
    /\ ws.sockets[i] = "open"
    /\ rollingVWAP' = updatePrice(rollingVWAP, price, now)
    /\ lastCall' = [NoCall EXCEPT !.op = "updatePrice"]
    /\ UNCHANGED <<now, strategy, paperTrading, algorithmRunning, ws, tracker,
                   stopLossPending>>

\* a candle message on an open socket: rollingVWAP.updateCandle(candle)
FeedCandle ==
  \E i \in 1..Len(ws.sockets), c \in FeedCandles(now) :
    /\ ws.sockets[i] = "open"
    /\ rollingVWAP' = updateCandle(rollingVWAP, c, now)
    /\ lastCall' = [NoCall EXCEPT !.op = "updateCandle"]
    /\ UNCHANGED <<now, strategy, paperTrading, algorithmRunning, ws, tracker,
                   stopLossPending>>

\* A timer of reconnect() runs. One set during the pause of a restart has a
\* delay of a second or more, the pause's length, and runs after the pause;
\* here none runs during the pause.
TrackerReconnectTimer == tracker.phase # "waiting" /\ ReconnectTimer

NextTracker ==
  \/ ServerStart \/ BackfillDone \/ RestartRequest \/ RestartResume
  \/ SocketOpen \/ SocketDrop \/ SocketClosed \/ TrackerReconnectTimer
  \/ FeedTicker \/ FeedCandle

SpecTracker == Init /\ [][NextTracker]_vars

(* the tracker and its cleanup interval while the feed is silent: the server
   starts the tracker, POST /api/restart stops and starts it, time passes *)

NextMaintenance ==
  \/ ServerStart \/ BackfillDone \/ RestartRequest \/ RestartResume
  \/ ClockTick \/ Cleanup

SpecMaintenance == Init /\ [][NextMaintenance]_vars

\* an interval that is set keeps firing, and a pending start() or restart
\* goes on
FairSpecMaintenance ==
  /\ SpecMaintenance
  /\ WF_vars(Cleanup)
  /\ WF_vars(ServerStart \/ BackfillDone \/ RestartResume)

----------------------------------------------------------------------------
(* Claims about the aggregator                                             *)

\* (high + low + close) * volume summed over the stored candles: 3 * sum of priceVolume
RECURSIVE ThricePriceVolume(_, _)
ThricePriceVolume(S, candles) ==
  IF S = {} THEN 0
  ELSE LET s == CHOOSE x \in S : TRUE
       IN (candles[s].high + candles[s].low + candles[s].close) * candles[s].volume
            + ThricePriceVolume(S \ {s}, candles)

RECURSIVE VolumeOf(_, _)
VolumeOf(S, candles) ==
  IF S = {} THEN 0
  ELSE LET s == CHOOSE x \in S : TRUE
       IN candles[s].volume + VolumeOf(S \ {s}, candles)

\* C1: after any sequence of updateCandle calls (new candles, revisions,
\* evictions by age and by the max-candle budget) totalPriceVolume and
\* totalVolume are the sums of priceVolume and volume over exactly the candles
\* in the map, and currentVWAP is their ratio, null when the volume is 0.
C1_RunningTotals ==
  LET a   == rollingVWAP
      pv3 == ThricePriceVolume(DOMAIN a.candles, a.candles)
      vol == VolumeOf(DOMAIN a.candles, a.candles)
  IN /\ a.totalPriceVolume.n * 3 = pv3 * a.totalPriceVolume.d
     /\ a.totalPriceVolume.d > 0
     /\ a.totalVolume = [n |-> vol, d |-> 1]
     /\ IF vol = 0 THEN a.currentVWAP = NullNum
        ELSE /\ a.currentVWAP.d > 0
             /\ a.currentVWAP.n * 3 * vol = pv3 * a.currentVWAP.d

\* an updateCandle call has evicted the oldest candle for the budget and the
\* window, holding two candles with volume, has a VWAP
C1_Witness ==
  /\ lastCall.op = "updateCandle"
  /\ lastCall.aggregator.byBudget >= 1
  /\ Cardinality(DOMAIN rollingVWAP.candles) >= 2
  /\ \A s \in DOMAIN rollingVWAP.candles : rollingVWAP.candles[s].volume > 0
  /\ rollingVWAP.currentVWAP # NullNum

----------------------------------------------------------------------------
(* Claims about the strategy                                               *)

\* the last call's deviation is a number
HasDeviation == lastCall.stats.deviationPercent # Null

\* the last call's deviation, in hundredths of a percentage point
Deviation == lastCall.stats.deviationPercent[1]

HasPercentiles == lastCall.stats.percentiles # Null

LastPercentiles == lastCall.stats.percentiles[1]

\* the last call's deviation lies in the closed band [-0.75%, +0.6%]
InsideBand == HasDeviation /\ Deviation >= -75 /\ Deviation <= 60

\* the last call's deviation lies outside the band
OutsideBand == HasDeviation /\ (Deviation < -75 \/ Deviation > 60)

\* what evaluateEntry returned, as far as a caller acts on it
EntrySignal == <<lastCall.entry.action, lastCall.entry.type, lastCall.entry.level>>

ExitSignal == <<lastCall.exit.action, lastCall.exit.exitType>>

NoEntry == lastCall.entry.action \notin {"enter", "add"}

\* C2: after a stop-loss exit, every evaluateEntry call whose deviation lies
\* outside [-0.75%, +0.6%] returns no enter and no add, whatever the
\* percentiles and the position, until some evaluateEntry call has observed a
\* deviation inside the band.
C2_LockoutUntilNeutral ==
  (lastCall.op = "evaluateEntry" /\ lastCall.pendingAtEntry /\ OutsideBand)
    => NoEntry

\* C3: evaluateEntry called with the lock set and a deviation in the closed
\* band clears the lock and applies the normal rules in the same call (at
\* exactly +0.6% with p90 <= 0.6% and no position it enters short at Short1),
\* and a later call is evaluated as if no stop-loss had happened.
C3_NeutralClearsAndEvaluates ==
  /\ (lastCall.op = "evaluateEntry" /\ lastCall.lockAtEntry # "null" /\ InsideBand)
       => /\ strategy.waitingForNeutralReentry = "null"
          /\ lastCall.entry.action # "none"
          /\ (/\ Deviation = 60
              /\ HasPercentiles
              /\ LastPercentiles.percentile90Percent <= 60
              /\ lastCall.positionAtEntry = Null)
               => EntrySignal = <<"enter", "short", "Short1">>
  /\ (lastCall.op = "evaluateEntry" /\ ~lastCall.pendingAtEntry)
       => /\ lastCall.lockAtEntry = "null"
          /\ lastCall.entry.action # "none"

\* the lock was set, the deviation was exactly +0.6% with p90 below it and no
\* position: the call cleared the lock and entered short
C3_Witness ==
  /\ lastCall.op = "evaluateEntry"
  /\ lastCall.lockAtEntry = "short"
  /\ HasDeviation /\ Deviation = 60
  /\ HasPercentiles /\ LastPercentiles.percentile90Percent <= 60
  /\ lastCall.positionAtEntry = Null
  /\ strategy.waitingForNeutralReentry = "null"
  /\ EntrySignal = <<"enter", "short", "Short1">>

\* C4: with no lock, stats available and no position, evaluateEntry returns
\* enter short Short1 exactly when deviation >= max(p90, 0.6%), otherwise
\* enter long Long1 exactly when deviation <= min(p10, -0.75%), otherwise no
\* signal; it never returns Short2, Long2 or add.
C4_FirstEntry ==
  (/\ lastCall.op = "evaluateEntry"
   /\ lastCall.lockAtEntry = "null"
   /\ HasPercentiles
   /\ lastCall.positionAtEntry = Null)
    => LET p90 == LastPercentiles.percentile90Percent
           p10 == LastPercentiles.percentile10Percent
           short1 == HasDeviation /\ Deviation >= p90 /\ Deviation >= 60
           long1  == HasDeviation /\ Deviation <= p10 /\ Deviation <= -75
       IN /\ short1 <=> EntrySignal = <<"enter", "short", "Short1">>
          /\ (~short1 /\ long1) <=> EntrySignal = <<"enter", "long", "Long1">>
          /\ (~short1 /\ ~long1) <=> lastCall.entry.action = "null"
          /\ lastCall.entry.action # "add"
          /\ lastCall.entry.level \notin {"Short2", "Long2"}

\* p90 = 0.55% and a deviation of 0.65% with no position: enter short Short1
C4_Witness ==
  /\ lastCall.op = "evaluateEntry"
  /\ lastCall.lockAtEntry = "null"
  /\ lastCall.positionAtEntry = Null
  /\ HasPercentiles /\ LastPercentiles.percentile90Percent = 55
  /\ HasDeviation /\ Deviation = 65
  /\ EntrySignal = <<"enter", "short", "Short1">>

\* the position evaluateEntry was given is of this type with this one entry
EntryPositionIs(type, levels) ==
  /\ lastCall.positionAtEntry # Null
  /\ lastCall.positionAtEntry[1].type = type
  /\ lastCall.positionAtEntry[1].entryLevels = levels

\* C5: with a short position holding exactly one entry at Short1,
\* evaluateEntry returns add short Short2 exactly when
\* deviation >= max(p95, 0.75%); with a long position holding exactly one
\* entry at Long1 it returns add long Long2 exactly when
\* deviation <= min(p5, -0.9%).
C5_SecondEntry ==
  (/\ lastCall.op = "evaluateEntry"
   /\ lastCall.lockAtEntry = "null"
   /\ HasPercentiles)
    => LET p95 == LastPercentiles.percentile95Percent
           p5  == LastPercentiles.percentile5Percent
           short2 == HasDeviation /\ Deviation >= p95 /\ Deviation >= 75
           long2  == HasDeviation /\ Deviation <= p5 /\ Deviation <= -90
       IN /\ EntryPositionIs("short", <<"Short1">>)
               => (short2 <=> EntrySignal = <<"add", "short", "Short2">>)
          /\ EntryPositionIs("long", <<"Long1">>)
               => (long2 <=> EntrySignal = <<"add", "long", "Long2">>)

\* short at Short1, p95 = 0.85%: a deviation of 0.85% adds Short2
C5_Witness ==
  /\ lastCall.op = "evaluateEntry"
  /\ lastCall.lockAtEntry = "null"
  /\ EntryPositionIs("short", <<"Short1">>)
  /\ HasPercentiles /\ LastPercentiles.percentile95Percent = 85
  /\ HasDeviation /\ Deviation = 85
  /\ EntrySignal = <<"add", "short", "Short2">>

\* C6: evaluateEntry never returns add for a position that already holds two
\* entries, never returns a signal whose type differs from the open
\* position's type, and with a position open never returns enter.
C6_NoThirdEntryNoFlip ==
  (lastCall.op = "evaluateEntry" /\ lastCall.positionAtEntry # Null)
    => LET pos == lastCall.positionAtEntry[1]
       IN /\ pos.totalContractCount = 2 => lastCall.entry.action # "add"
          /\ lastCall.entry.action \in {"enter", "add"}
               => lastCall.entry.type = pos.type
          /\ lastCall.entry.action # "enter"

\* a short position with both entries and a deviation beyond every short
\* threshold: no signal
C6_Witness ==
  /\ lastCall.op = "evaluateEntry"
  /\ lastCall.lockAtEntry = "null"
  /\ EntryPositionIs("short", <<"Short1", "Short2">>)
  /\ HasPercentiles
  /\ HasDeviation /\ Deviation >= 150
  /\ lastCall.entry.action = "null"

\* the last call's deviation is a number within 0.1% of the VWAP
NearVWAP == HasDeviation /\ Deviation > -10 /\ Deviation < 10

\* C7, as stated: for any open position evaluateExit returns close with
\* exitType take_profit whenever |deviation| < 0.1%; the check precedes the
\* stop-loss checks, so no exit is a stop_loss when |deviation| < 0.1%.
C7_TakeProfitAlways ==
  (lastCall.op = "evaluateExit" /\ lastCall.positionAtExit # Null /\ NearVWAP)
    => ExitSignal = <<"close", "take_profit">>

\* C7, amended: for any open position and with deviation-history stats
\* available, evaluateExit returns close with exitType take_profit whenever
\* |deviation| < 0.1%; without the stats it returns no signal; in neither
\* case is the exit a stop_loss.
C7_TakeProfitWithStats ==
  (lastCall.op = "evaluateExit" /\ lastCall.positionAtExit # Null /\ NearVWAP)
    => /\ HasPercentiles => ExitSignal = <<"close", "take_profit">>
       /\ ~HasPercentiles => lastCall.exit.action = "null"
       /\ lastCall.exit.exitType # "stop_loss"
       /\ strategy.waitingForNeutralReentry = lastCall.lockBefore

\* a long position at a deviation of -0.09% is closed for take profit
C7_Witness ==
  /\ lastCall.op = "evaluateExit"
  /\ lastCall.positionAtExit # Null
  /\ lastCall.positionAtExit[1].type = "long"
  /\ HasPercentiles
  /\ HasDeviation /\ Deviation = -9
  /\ ExitSignal = <<"close", "take_profit">>

\* the position evaluateExit was given is of this type
ExitPositionIs(type) ==
  /\ lastCall.positionAtExit # Null
  /\ lastCall.positionAtExit[1].type = type

\* C8, as stated: for a short position with deviation >= 2.25% evaluateExit
\* sets the lock to waiting-short and returns close/stop_loss; for a long
\* position with deviation <= -2.4% it sets the lock to waiting-long and
\* returns close/stop_loss; the boundary values themselves trigger.
C8_StopLossAlways ==
  lastCall.op = "evaluateExit"
    => /\ (ExitPositionIs("short") /\ HasDeviation /\ Deviation >= 225)
            => /\ ExitSignal = <<"close", "stop_loss">>
               /\ strategy.waitingForNeutralReentry = "short"
       /\ (ExitPositionIs("long") /\ HasDeviation /\ Deviation <= -240)
            => /\ ExitSignal = <<"close", "stop_loss">>
               /\ strategy.waitingForNeutralReentry = "long"

\* C8, amended: the same, with deviation-history stats available; without
\* them evaluateExit returns no signal and leaves the lock as it was.
C8_StopLossWithStats ==
  lastCall.op = "evaluateExit"
    => /\ (HasPercentiles /\ ExitPositionIs("short") /\ HasDeviation /\ Deviation >= 225)
            => /\ ExitSignal = <<"close", "stop_loss">>
               /\ strategy.waitingForNeutralReentry = "short"
       /\ (HasPercentiles /\ ExitPositionIs("long") /\ HasDeviation /\ Deviation <= -240)
            => /\ ExitSignal = <<"close", "stop_loss">>
               /\ strategy.waitingForNeutralReentry = "long"
       /\ (~HasPercentiles /\ lastCall.positionAtExit # Null)
            => /\ lastCall.exit.action = "null"
               /\ strategy.waitingForNeutralReentry = lastCall.lockBefore

\* a short position at exactly 2.25%: stop-loss, and the lock is waiting-short
C8_Witness ==
  /\ lastCall.op = "evaluateExit"
  /\ ExitPositionIs("short")
  /\ HasPercentiles
  /\ HasDeviation /\ Deviation = 225
  /\ ExitSignal = <<"close", "stop_loss">>
  /\ strategy.waitingForNeutralReentry = "short"

----------------------------------------------------------------------------
(* Claims about the reentry lock in the running server                     *)

\* C9: waitingForNeutralReentry goes from none to a waiting value only in an
\* evaluateExit call that returns close with exitType stop_loss; a
\* take-profit exit, an exit evaluation without a signal, evaluateEntry and
\* every ledger operation leave a lock of none at none.
C9_LockSetOnlyByStopLoss ==
  /\ (lastCall.lockBefore = "null" /\ strategy.waitingForNeutralReentry # "null")
       => /\ lastCall.op = "update"
          /\ ExitSignal = <<"close", "stop_loss">>
  /\ lastCall.exit.exitType # "stop_loss"
       => lastCall.lockAtEntry = lastCall.lockBefore
  /\ lastCall.lockAtEntry = "null"
       => strategy.waitingForNeutralReentry = "null"

\* an update event found no lock, its exit evaluation stopped a long position
\* out and the lock is waiting-long
C9_Witness ==
  /\ lastCall.op = "update"
  /\ lastCall.lockBefore = "null"
  /\ lastCall.positionAtExit # Null
  /\ ExitSignal = <<"close", "stop_loss">>
  /\ lastCall.closed.success
  /\ strategy.waitingForNeutralReentry = "long"

\* C10: once set, waitingForNeutralReentry returns to none only through an
\* evaluateEntry call whose deviation lies in [NEUTRAL_MIN, NEUTRAL_MAX]; no
\* other operation (evaluateExit, algorithm stop and start, restart, the
\* ledger's calls) clears it.
C10_LockClearedOnlyInBand ==
  (/\ (lastCall.lockBefore # "null" \/ lastCall.lockAtEntry # "null")
   /\ strategy.waitingForNeutralReentry = "null")
    => /\ lastCall.op = "update"
       /\ lastCall.entry # NotCalled
       /\ InsideBand

----------------------------------------------------------------------------
(* Claims about the null VWAP                                              *)

\* C11: when the snapshot's VWAP is null (deviation and deviationPercent are
\* null), neither evaluateExit nor evaluateEntry yields an enter, add or
\* close signal, and the update event leaves the position, the ledger and
\* the reentry lock unchanged.
C11_NullVWAPNoSignal ==
  (lastCall.op = "update" /\ lastCall.stats.deviationPercent = Null)
    => /\ lastCall.exit.action # "close"
       /\ NoEntry
       /\ paperTrading = lastCall.ledgerBefore
       /\ strategy.waitingForNeutralReentry = lastCall.lockBefore

----------------------------------------------------------------------------
(* Claims about the deviation history                                      *)

\* C12: after any sequence of aggregator operations
\* (initializeDeviationHistory on any batch, updateCandle, recordDeviation,
\* removeOldCandles) the deviation history holds at most one snapshot per
\* timestamp; recording again for the same bar timestamp leaves exactly one
\* entry for it, equal to the latest price/VWAP values.
C12_OneSnapshotPerTimestamp ==
  LET h == rollingVWAP.deviationHistory
  IN /\ \A i, j \in 1..Len(h) : h[i].timestamp = h[j].timestamp => i = j
     /\ (/\ lastCall.op = "updateCandle"
         /\ Truthy(rollingVWAP.currentVWAP)
         /\ Truthy(rollingVWAP.currentPrice))
          => \E i \in 1..Len(h) :
               /\ h[i].timestamp = rollingVWAP.currentCandleStart[1]
               /\ h[i].price = rollingVWAP.currentPrice
               /\ h[i].vwap = rollingVWAP.currentVWAP

\* C13: for every ascending array of n >= 1 values and every p in
\* {1, 5, 10, 90, 95, 99}, percentile returns the element at index
\* min(floor(p/100 * n), n - 1); for an empty array it returns null; the
\* result is an element of the input and is non-decreasing in p.
C13_Percentile ==
  lastCall.op = "percentile"
    => LET arr == lastCall.percentileOf.arr
           n   == Len(arr)
           p   == lastCall.percentileOf.p
           res == lastCall.percentileOf.result
           all == lastCall.percentileOf.all
           floorIndex == (p * n) \div 100
       IN IF n = 0
          THEN res = Null
          ELSE /\ res # Null
               /\ res[1] = arr[(IF floorIndex <= n - 1 THEN floorIndex ELSE n - 1) + 1]
               /\ \E i \in 1..n : arr[i] = res[1]
               /\ \A q1, q2 \in PercentileRanks :
                    q1 <= q2 => all[q1][1] <= all[q2][1]

\* the 90th percentile of twenty distinct values is the nineteenth of them
C13_Witness ==
  /\ lastCall.op = "percentile"
  /\ Len(lastCall.percentileOf.arr) = 20
  /\ lastCall.percentileOf.p = 90
  /\ lastCall.percentileOf.result = <<lastCall.percentileOf.arr[19]>>
  /\ lastCall.percentileOf.arr[19] < lastCall.percentileOf.arr[20]
  /\ lastCall.percentileOf.arr[18] < lastCall.percentileOf.arr[19]

----------------------------------------------------------------------------
(* Claims about the ledger                                                 *)

\* C14: in every state reached through enterPosition and closePosition as
\* the decision engine's signals drive them, an open position's
\* totalContractCount equals the number of its entries and never exceeds 2.
C14_ContractCount ==
  paperTrading.currentPosition # Null
    => LET position == paperTrading.currentPosition[1]
       IN /\ position.totalContractCount = Len(position.entries)
          /\ position.totalContractCount <= 2

\* an update event added the second entry to the open position
C14_Witness ==
  /\ lastCall.op = "update"
  /\ lastCall.entry.action = "add"
  /\ lastCall.entered.success
  /\ paperTrading.currentPosition # Null
  /\ paperTrading.currentPosition[1].totalContractCount = 2
  /\ Len(paperTrading.currentPosition[1].entries) = 2

\* the sum of a sequence of integers
RECURSIVE SumSeq(_)
SumSeq(q) == IF q = << >> THEN 0 ELSE q[1] + SumSeq(Tail(q))

\* the ledger operation just called, its arguments and its outcome
Entered == lastCall.op = "enterPosition" /\ lastCall.entered.success
Closed  == lastCall.op = "closePosition" /\ lastCall.closed.success
CallPrice == lastCall.stats.currentPrice
PositionBefore == lastCall.ledgerBefore.currentPosition[1]

\* the price moved by the slippage rate of 0.05%, up or down
SlippedUp(price)   == price + price \div 2000
SlippedDown(price) == price - price \div 2000

\* the money a size at a price amounts to, and the fee of 0.065% on an amount
Notional(size, price) == size * price * 10000
FeeOn(amount) == (amount \div 20000) * 13

\* C15: after every successful enterPosition call, the open position's
\* avgEntryPrice equals the size-weighted mean of the fill prices of all its
\* entries, and totalSizeInBTC equals the sum of the entries' sizes.
C15_AverageEntryPrice ==
  Entered
    => LET position == paperTrading.currentPosition[1]
           entries  == position.entries
           sizes    == [i \in 1..Len(entries) |-> entries[i].sizeInBTC]
           values   == [i \in 1..Len(entries) |->
                          entries[i].entryPrice * entries[i].sizeInBTC]
       IN /\ paperTrading.currentPosition # Null
          /\ position.totalSizeInBTC = SumSeq(sizes)
          /\ position.avgEntryPrice * position.totalSizeInBTC = SumSeq(values)

\* a second entry was added at a price other than the first's
C15_Witness ==
  /\ Entered
  /\ Len(paperTrading.currentPosition[1].entries) = 2
  /\ paperTrading.currentPosition[1].entries[1].entryPrice
       # paperTrading.currentPosition[1].entries[2].entryPrice
  /\ paperTrading.currentPosition[1].totalSizeInBTC = 2

\* C16: enterPosition called with a long signal and cashBalance < notional +
\* fee (at the slippage-adjusted fill price) returns a failure carrying the
\* required and available amounts and leaves cashBalance, currentPosition,
\* tradeHistory and totalRealizedPnL unchanged, for a first entry and an add.
C16_InsufficientFunds ==
  LET notional == Notional(1, SlippedUp(CallPrice))
      required == notional + FeeOn(notional)
  IN (/\ lastCall.op = "enterPosition"
      /\ lastCall.signal.type = "long"
      /\ lastCall.ledgerBefore.cashBalance < required)
       => /\ ~lastCall.entered.success
          /\ lastCall.entered.error = "Insufficient funds"
          /\ lastCall.entered.required = required
          /\ lastCall.entered.available = lastCall.ledgerBefore.cashBalance
          /\ paperTrading = lastCall.ledgerBefore

\* an add to an open long position failed for lack of funds
C16_Witness ==
  /\ lastCall.op = "enterPosition"
  /\ lastCall.signal.action = "add"
  /\ lastCall.signal.type = "long"
  /\ lastCall.ledgerBefore.currentPosition # Null
  /\ lastCall.entered.error = "Insufficient funds"
  /\ paperTrading = lastCall.ledgerBefore

\* C17: closePosition called when no position is open returns a failure
\* result and changes nothing: cashBalance, totalRealizedPnL and tradeHistory
\* are unchanged and the position stays null.
C17_CloseWithoutPosition ==
  (lastCall.op = "closePosition" /\ lastCall.ledgerBefore.currentPosition = Null)
    => /\ ~lastCall.closed.success
       /\ lastCall.closed.error = "No position to close"
       /\ paperTrading = lastCall.ledgerBefore
       /\ paperTrading.currentPosition = Null

\* closePosition was called after the position had been closed already
C17_Witness ==
  /\ lastCall.op = "closePosition"
  /\ lastCall.ledgerBefore.currentPosition = Null
  /\ Len(lastCall.ledgerBefore.tradeHistory) >= 2
  /\ ~lastCall.closed.success

\* C18: for a position opened by one or two same-direction entries and then
\* closed at price P, closePosition reports netPnL = grossPnL - totalEntryFees
\* - exitFee, where grossPnL = (fill - avgEntryPrice) * size for a long and
\* (avgEntryPrice - fill) * size for a short, fill is P adjusted adversely by
\* the slippage rate, and exitFee = size * fill * feeRate.
C18_NetPnL ==
  Closed
    => LET position == PositionBefore
           size     == position.totalSizeInBTC
           fill     == IF position.type = "long" THEN SlippedDown(CallPrice)
                       ELSE SlippedUp(CallPrice)
           grossPnL == IF position.type = "long"
                       THEN Notional(size, fill) - Notional(size, position.avgEntryPrice)
                       ELSE Notional(size, position.avgEntryPrice) - Notional(size, fill)
           exitFee  == FeeOn(Notional(size, fill))
           exit     == paperTrading.tradeHistory[Len(paperTrading.tradeHistory)].exit[1]
       IN /\ lastCall.closed.realizedPnL = grossPnL - position.totalEntryFees - exitFee
          /\ exit.exitPrice = fill
          /\ exit.grossPnL = grossPnL
          /\ exit.exitFee = exitFee
          /\ exit.netPnL = lastCall.closed.realizedPnL

\* a long position of two entries was closed above its average entry price
C18_Witness ==
  /\ Closed
  /\ PositionBefore.type = "long"
  /\ Len(PositionBefore.entries) = 2
  /\ PositionBefore.entries[1].level = "Long1"
  /\ PositionBefore.entries[2].level = "Long2"
  /\ CallPrice > PositionBefore.avgEntryPrice
  /\ lastCall.closed.realizedPnL > 0

\* C19: every successful closePosition call increases totalRealizedPnL by
\* exactly the reported netPnL, appends exactly one exit record to
\* tradeHistory and leaves currentPosition null; every successful
\* enterPosition call (first entry or add) appends exactly one enter record.
C19_OneRecordPerCall ==
  LET before == lastCall.ledgerBefore
      h      == paperTrading.tradeHistory
  IN /\ Closed
          => /\ paperTrading.totalRealizedPnL
                  = before.totalRealizedPnL + lastCall.closed.realizedPnL
             /\ Len(h) = Len(before.tradeHistory) + 1
             /\ h[Len(h)].action = "exit"
             /\ paperTrading.currentPosition = Null
     /\ Entered
          => /\ Len(h) = Len(before.tradeHistory) + 1
             /\ h[Len(h)].action = "enter"
             /\ h[Len(h)].signal = lastCall.signal

\* an add to a position was logged as the second record of the history
C19_Witness ==
  /\ Entered
  /\ lastCall.signal.action = "add"
  /\ lastCall.ledgerBefore.currentPosition # Null
  /\ Len(paperTrading.tradeHistory) = 2
  /\ paperTrading.tradeHistory[2].action = "enter"

\* C20: a successful enterPosition debits cashBalance by notional + fee for
\* a long entry or add, and by the fee only for a short entry or add, where
\* notional = 0.01 * fill price and fee = notional * fee rate.
C20_EntryDebit ==
  Entered
    => LET fill     == IF lastCall.signal.type = "long" THEN SlippedUp(CallPrice)
                       ELSE SlippedDown(CallPrice)
           notional == Notional(1, fill)
           fee      == FeeOn(notional)
           debit    == lastCall.ledgerBefore.cashBalance - paperTrading.cashBalance
       IN IF lastCall.signal.type = "long"
          THEN debit = notional + fee
          ELSE debit = fee

\* a short add was debited its fee
C20_Witness ==
  /\ Entered
  /\ lastCall.signal.type = "short"
  /\ lastCall.signal.action = "add"
  /\ lastCall.ledgerBefore.currentPosition # Null
  /\ lastCall.ledgerBefore.currentPosition[1].type = "short"
  /\ lastCall.ledgerBefore.cashBalance - paperTrading.cashBalance
       = FeeOn(Notional(1, SlippedDown(CallPrice)))

\* C21: a successful closePosition credits cashBalance by (exit notional -
\* exit fee) for a long position, and by (avgEntryPrice * size - exit fee)
\* for a short position.
C21_CloseCredit ==
  Closed
    => LET position == PositionBefore
           size     == position.totalSizeInBTC
           fill     == IF position.type = "long" THEN SlippedDown(CallPrice)
                       ELSE SlippedUp(CallPrice)
           exitFee  == FeeOn(Notional(size, fill))
           credit   == paperTrading.cashBalance - lastCall.ledgerBefore.cashBalance
       IN IF position.type = "long"
          THEN credit = Notional(size, fill) - exitFee
          ELSE credit = Notional(size, position.avgEntryPrice) - exitFee

\* a short position of two entries was closed away from its average entry price
C21_Witness ==
  /\ Closed
  /\ PositionBefore.type = "short"
  /\ PositionBefore.totalSizeInBTC = 2
  /\ SlippedUp(CallPrice) # PositionBefore.avgEntryPrice
  /\ paperTrading.cashBalance - lastCall.ledgerBefore.cashBalance
       = Notional(2, PositionBefore.avgEntryPrice)
           - FeeOn(Notional(2, SlippedUp(CallPrice)))

\* the record the ledger logged last
LastRecord == paperTrading.tradeHistory[Len(paperTrading.tradeHistory)]

\* C22: slippage always worsens the fill: a long entry or add fills at or
\* above the given price and a short entry or add at or below it; a long
\* close fills at or below the given price and a short close at or above it.
C22_SlippageAdverse ==
  /\ Entered
       => IF lastCall.signal.type = "long"
          THEN LastRecord.entry[1].entryPrice >= CallPrice
          ELSE LastRecord.entry[1].entryPrice <= CallPrice
  /\ Closed
       => IF PositionBefore.type = "long"
          THEN LastRecord.exit[1].exitPrice <= CallPrice
          ELSE LastRecord.exit[1].exitPrice >= CallPrice

\* a long add filled above the given price
C22_Witness ==
  /\ Entered
  /\ lastCall.signal.type = "long"
  /\ lastCall.signal.action = "add"
  /\ LastRecord.entry[1].entryPrice > CallPrice
  /\ Len(paperTrading.currentPosition[1].entries) = 2

\* C23: updatePosition, called in any state with any price, changes none of
\* cashBalance, totalRealizedPnL, tradeHistory, or the stored position's
\* entries, totalEntryFees and avgEntryPrice; with no open position it returns
\* position null, zero P&L and fee figures, and totalEquity equal to
\* cashBalance.
C23_UpdatePositionFrame ==
  lastCall.op = "updatePosition"
    => LET before == lastCall.ledgerBefore
           state  == lastCall.positionState
       IN /\ paperTrading.cashBalance = before.cashBalance
          /\ paperTrading.totalRealizedPnL = before.totalRealizedPnL
          /\ paperTrading.tradeHistory = before.tradeHistory
          /\ (paperTrading.currentPosition = Null) = (before.currentPosition = Null)
          /\ before.currentPosition # Null
               => /\ paperTrading.currentPosition[1].entries
                       = before.currentPosition[1].entries
                  /\ paperTrading.currentPosition[1].totalEntryFees
                       = before.currentPosition[1].totalEntryFees
                  /\ paperTrading.currentPosition[1].avgEntryPrice
                       = before.currentPosition[1].avgEntryPrice
          /\ before.currentPosition = Null
               => /\ state.position = Null
                  /\ state.unrealizedPnLBeforeFees = 0
                  /\ state.unrealizedPnLAfterFees = 0
                  /\ state.entryFees = 0
                  /\ state.estimatedExitFees = 0
                  /\ state.totalFees = 0
                  /\ state.totalEquity = before.cashBalance

\* updatePosition was called with no position open, after a trade had changed
\* the cash balance
C23_Witness ==
  /\ lastCall.op = "updatePosition"
  /\ paperTrading.currentPosition = Null
  /\ Len(paperTrading.tradeHistory) = 2
  /\ paperTrading.cashBalance # paperTrading.initialBalance
  /\ lastCall.positionState.position = Null
  /\ lastCall.positionState.totalEquity = paperTrading.cashBalance

\* the value of a position marked to the market at a price: what the size is
\* worth for a long, the gain on the average entry price for a short
MarkToMarket(position, price) ==
  IF position.type = "long" THEN Notional(position.totalSizeInBTC, price)
  ELSE Notional(position.totalSizeInBTC, position.avgEntryPrice)
         - Notional(position.totalSizeInBTC, price)

\* C24: for an open position of either direction, the totalEquity returned by
\* updatePosition equals cashBalance plus the mark-to-market value of the
\* position at the current price.
C24_TotalEquity ==
  (lastCall.op = "updatePosition" /\ lastCall.ledgerBefore.currentPosition # Null)
    => lastCall.positionState.totalEquity
         = lastCall.ledgerBefore.cashBalance + MarkToMarket(PositionBefore, CallPrice)

\* the closed trades of the history and their net P&L
ExitRecords == SelectSeq(paperTrading.tradeHistory, LAMBDA t : t.action = "exit")
NetPnLs == [i \in 1..Len(ExitRecords) |-> ExitRecords[i].exit[1].netPnL]

\* C25: getPerformance is a pure aggregation of closed trades: after any
\* sequence of ledger operations, totalTrades equals the number of exit
\* records, winningTrades + losingTrades = totalTrades, winRate is 0 when
\* there are no closed trades, and the reported totalRealizedPnL equals the
\* sum of netPnL over the exit records.
C25_Performance ==
  lastCall.op = "getPerformance"
    => LET performance == lastCall.performance
       IN /\ paperTrading = lastCall.ledgerBefore
          /\ performance.totalTrades = Len(ExitRecords)
          /\ performance.winningTrades + performance.losingTrades
               = performance.totalTrades
          /\ performance.totalTrades = 0 => performance.winRate = Num(0)
          /\ performance.totalRealizedPnL = SumSeq(NetPnLs)

\* getPerformance was called after a trade was closed at a gain and another
\* position opened
C25_Witness ==
  /\ lastCall.op = "getPerformance"
  /\ Len(paperTrading.tradeHistory) = 3
  /\ paperTrading.currentPosition # Null
  /\ lastCall.performance.totalTrades = 1
  /\ lastCall.performance.winningTrades = 1
  /\ lastCall.performance.winRate = Num(100)
  /\ lastCall.performance.totalRealizedPnL > 0

C26_UpdatePriceFrame ==
  [][lastCall'.op = "updatePrice"
       => /\ rollingVWAP'.candles = rollingVWAP.candles
          /\ rollingVWAP'.totalPriceVolume = rollingVWAP.totalPriceVolume
          /\ rollingVWAP'.totalVolume = rollingVWAP.totalVolume
          /\ rollingVWAP'.currentVWAP = rollingVWAP.currentVWAP
          /\ rollingVWAP'.currentCandleStart = rollingVWAP.currentCandleStart
          /\ rollingVWAP'.deviationHistory = rollingVWAP.deviationHistory]_vars

\* a ticker price came in after a candle with volume: the aggregator has a
\* VWAP, a snapshot of the candle's deviation, and a price off the candle's close
C26_Witness ==
  /\ lastCall.op = "updatePrice"
  /\ rollingVWAP.currentVWAP # NullNum
  /\ rollingVWAP.currentCandleStart # << >>
  /\ Len(rollingVWAP.deviationHistory) >= 1
  /\ rollingVWAP.currentPrice = Num(5)
  /\ rollingVWAP.currentPrice
       # rollingVWAP.deviationHistory[Len(rollingVWAP.deviationHistory)].price

\* C27: removeOldCandles is idempotent: applying it twice at the same clock
\* time yields the same bars, running totals and deviation history as applying
\* it once, and after it the running totals equal what they would be had the
\* removed bars never been inserted: the sums over the bars that remain.
C27_CleanupIdempotent ==
  lastCall.op = "cleanup"
    => LET once  == rollingVWAP
           twice == removeOldCandles(once, now)
           pv3   == ThricePriceVolume(DOMAIN once.candles, once.candles)
           vol   == VolumeOf(DOMAIN once.candles, once.candles)
       IN /\ twice.candles = once.candles
          /\ twice.totalPriceVolume = once.totalPriceVolume
          /\ twice.totalVolume = once.totalVolume
          /\ twice.deviationHistory = once.deviationHistory
          /\ once.totalPriceVolume.n * 3 = pv3 * once.totalPriceVolume.d
          /\ once.totalPriceVolume.d > 0
          /\ once.totalVolume = [n |-> vol, d |-> 1]

\* a cleanup pass removed candles with volume by age and pruned the deviation
\* history, leaving a snapshot
C27_Witness ==
  /\ lastCall.op = "cleanup"
  /\ lastCall.cleanup.byAge >= 1
  /\ lastCall.cleanup.pruned >= 1
  /\ Len(rollingVWAP.deviationHistory) >= 1
  /\ rollingVWAP.totalVolume = Num(0)
  /\ rollingVWAP.candles = << >>

----------------------------------------------------------------------------
(* Claims about the connection                                             *)

\* the client's socket closed while the client was using it (disconnect()
\* was not called since connect() made it), and the client may open another
ConnectionLost ==
  /\ ws.ws # 0
  /\ ws.sockets[ws.ws] \in {"failed", "dropped"}
  /\ Len(ws.sockets) < MaxSockets

\* C29: after the WebSocket connection closes without disconnect() having
\* been requested, whether an established connection drops or a connection
\* attempt fails before opening, a new connection attempt is eventually made.
C29_Reconnects == ConnectionLost ~> ~ConnectionLost

\* C30: no live candle or ticker event is applied to the aggregator between
\* the moment a historical backfill begins (VWAPTracker.start) and the moment
\* initializeDeviationHistory and initialize have completed, on the first
\* start and on every restart through POST /api/restart.
C30_NoLiveEventDuringBackfill ==
  lastCall.op \in {"updatePrice", "updateCandle"} => tracker.phase # "fetching"

----------------------------------------------------------------------------
(* Claims about the tracker's maintenance                                  *)

\* the window holds a bar whose start is older than now minus the window
OldBar == \E s \in DOMAIN rollingVWAP.candles : s < now - WindowIntervals

\* C31: while the tracker is running, including after a stop() followed by
\* start(), the maintenance tick keeps firing, so a bar whose start is older
\* than now minus the primary window is eventually evicted from the bars and
\* the running totals even when no feed event arrives.
C31_MaintenanceEvicts ==
  (tracker.phase = "running" /\ OldBar) ~> (~OldBar \/ tracker.phase # "running")

\* C32: after initialize(bars) for any input batch (any size, any order,
\* including a batch in which two bars share a start timestamp)
\* totalPriceVolume and totalVolume equal the sums over exactly the bars
\* retained in the candles map.
C32_InitializeTotals ==
  (lastCall.op = "start_tracker" /\ lastCall.backfill.size > 0)
    => LET a   == rollingVWAP
           pv3 == ThricePriceVolume(DOMAIN a.candles, a.candles)
           vol == VolumeOf(DOMAIN a.candles, a.candles)
       IN /\ a.totalPriceVolume.n * 3 = pv3 * a.totalPriceVolume.d
          /\ a.totalVolume = [n |-> vol, d |-> 1]

\* C33: initialize and initializeDeviationHistory give the same resulting
\* state (bars, running totals, VWAP, current price and bar timestamp,
\* deviation snapshots) for every permutation of the same input batch of bars
\* with distinct start timestamps.
C33_OrderIndependent ==
  (lastCall.op = "start_tracker" /\ lastCall.backfill.size = lastCall.backfill.starts)
    => /\ rollingVWAP.candles = lastCall.permuted.candles
       /\ rollingVWAP.totalPriceVolume = lastCall.permuted.totalPriceVolume
       /\ rollingVWAP.totalVolume = lastCall.permuted.totalVolume
       /\ rollingVWAP.currentVWAP = lastCall.permuted.currentVWAP
       /\ rollingVWAP.currentPrice = lastCall.permuted.currentPrice
       /\ rollingVWAP.currentCandleStart = lastCall.permuted.currentCandleStart
       /\ rollingVWAP.deviationHistory = lastCall.permuted.deviationHistory

\* start() was given two candles with volume, the later one first, and left
\* both in the window with a snapshot for each
C33_Witness ==
  /\ lastCall.op = "start_tracker"
  /\ lastCall.backfill.size = 2
  /\ lastCall.backfill.starts = 2
  /\ Cardinality(DOMAIN rollingVWAP.candles) = 2
  /\ \A s \in DOMAIN rollingVWAP.candles : rollingVWAP.candles[s].volume > 0
  /\ Len(rollingVWAP.deviationHistory) = 2
  /\ rollingVWAP.currentCandleStart = <<now>>
  /\ rollingVWAP.currentVWAP # NullNum

----------------------------------------------------------------------------
(* Claims about the server's events                                        *)

\* the update event ran the algorithm: evaluateEntry was called
RanAlgorithm == lastCall.op = "update" /\ lastCall.entry.action # "not_called"

\* C34: within one update event while the algorithm is running, the exit
\* check and any resulting closePosition happen before the entry check, the
\* entry check receives the ledger's position as it is after that close, and
\* no other event is processed between the exit evaluation and the ledger
\* mutations of that event: the ledger after the event is the ledger before
\* it with this event's exit record, then this event's enter record.
C34_ExitBeforeEntry ==
  RanAlgorithm
    => LET before  == lastCall.ledgerBefore
           h       == paperTrading.tradeHistory
           n       == Len(before.tradeHistory)
           closed  == lastCall.closed.success
           entered == lastCall.entered.success
       IN /\ lastCall.positionAtExit = before.currentPosition
          /\ (lastCall.exit.action = "close") = closed
          /\ lastCall.positionAtEntry
               = IF closed THEN Null ELSE before.currentPosition
          /\ Len(h) = n + (IF closed THEN 1 ELSE 0) + (IF entered THEN 1 ELSE 0)
          /\ closed => /\ h[n + 1].action = "exit"
                       /\ h[n + 1].signal = lastCall.exit
                       /\ h[n + 1].position = before.currentPosition[1]
          /\ entered => /\ h[Len(h)].action = "enter"
                        /\ h[Len(h)].signal = lastCall.entry
          /\ \A i \in (n + 1)..Len(h) : h[i].timestamp = now
          /\ (~closed /\ ~entered) => paperTrading = before

\* an update event closed a position of two entries and its entry check was
\* given no position
C34_Witness ==
  /\ RanAlgorithm
  /\ lastCall.ledgerBefore.currentPosition # Null
  /\ lastCall.ledgerBefore.currentPosition[1].totalContractCount = 2
  /\ lastCall.exit.action = "close"
  /\ lastCall.closed.success
  /\ lastCall.positionAtEntry = Null
  /\ lastCall.entry.action \notin {"not_called", "TypeError"}
  /\ paperTrading.currentPosition = Null

C36_LockMeansFlat ==
  strategy.waitingForNeutralReentry # "null" => paperTrading.currentPosition = Null

\* an update event met the lock outside the neutral band: the lock stays and
\* no position was opened, though the deviation is beyond the entry threshold
C36_Witness ==
  /\ RanAlgorithm
  /\ lastCall.lockAtEntry # "null"
  /\ strategy.waitingForNeutralReentry # "null"
  /\ HasDeviation
  /\ OutsideBand
  /\ NoEntry
  /\ paperTrading.currentPosition = Null

\* C37: with the default thresholds, an update event whose exit check closes
\* the position (take-profit or stop-loss) never also opens a position in that
\* event: the entry check that runs after the close returns no enter and no
\* add, and the ledger is flat when the event ends.
C37_NoReentryInClosingEvent ==
  (lastCall.op = "update" /\ lastCall.exit.action = "close" /\ lastCall.closed.success)
    => /\ NoEntry
       /\ ~lastCall.entered.success
       /\ paperTrading.currentPosition = Null

\* an update event closed a position on a stop-loss and the entry check ran after it
C37_Witness ==
  /\ RanAlgorithm
  /\ lastCall.exit.action = "close" /\ lastCall.exit.exitType = "stop_loss"
  /\ lastCall.closed.success
  /\ lastCall.positionAtEntry = Null
  /\ NoEntry

\* an update event closed a position on a take-profit and the entry check ran after it
C37_WitnessTakeProfit ==
  /\ RanAlgorithm
  /\ lastCall.exit.action = "close" /\ lastCall.exit.exitType = "take_profit"
  /\ lastCall.closed.success
  /\ NoEntry

\* C38: whenever algorithmRunning is false between events, no position is
\* open: the stop and restart handlers close any open position in the step
\* that clears the flag, and an update event that finds the flag false calls
\* neither enterPosition nor closePosition and leaves the ledger as it was.
C38_StoppedMeansFlat ==
  /\ ~algorithmRunning => paperTrading.currentPosition = Null
  /\ (lastCall.op = "update" /\ ~algorithmRunning)
       => /\ lastCall.closed = NoOrder
          /\ lastCall.entered = NoOrder
          /\ paperTrading = lastCall.ledgerBefore

\* the stop or restart handler found a position open, closed it and cleared the flag
C38_Witness ==
  /\ lastCall.op \in {"stop", "restart"}
  /\ lastCall.ledgerBefore.currentPosition # Null
  /\ lastCall.closed.success
  /\ ~algorithmRunning
  /\ paperTrading.currentPosition = Null

\* C39: after disconnect() (the tracker's stop()), the client makes no further
\* WebSocket connection attempt unless connect() is called again: the close
\* event that disconnect() causes does not schedule a reconnect. Between
\* stop() and the connect() at the end of the next start() (the pause of a
\* restart and the fetch of start()), no socket is open or being opened.
C39_NoAttemptAfterDisconnect ==
  tracker.phase \in {"waiting", "fetching"}
    => \A i \in 1..Len(ws.sockets) : ws.sockets[i] \notin {"connecting", "open"}

\* the sockets that are open or being opened
LiveSockets == { i \in 1..Len(ws.sockets) : ws.sockets[i] \in {"connecting", "open"} }

\* C40: across every interleaving of connect(), disconnect(), the sockets'
\* open and close events and the reconnect timers, at most one WebSocket is
\* open or being opened at a time, and isConnected is true only while the
\* current socket (this.ws) is open.
C40_OneSocket ==
  /\ Cardinality(LiveSockets) <= 1
  /\ ws.isConnected => (ws.ws # 0 /\ ws.sockets[ws.ws] = "open")

====
